---- MODULE Spec2Model ----
(***************************************************************************)
(* Model of the red-ratio analysis (src/src/red/redlog.py): the sampling   *)
(* loop over the frame source, the centered moving average and the         *)
(* threshold-crossing event extractor.                                     *)
(*                                                                         *)
(* Numbers.  Signal values are integers counted in units of 1/Quantum of   *)
(* 10^-6 (the grid round(x, 6) rounds to); a smoothed value is an exact    *)
(* fraction <<num, den>> of such units, den > 0.  Times are integer ticks; *)
(* the sampling rate fps is given by its period, 1/fps, in ticks, so that  *)
(* k_s * fps is the fraction k_s / fps_period.  Python floats are taken as *)
(* exact rationals.  Python indices are 0-based; sequence access adds 1.   *)
(*                                                                         *)
(* The expansion and spread variants (bleed_detector.py, bleed_spread.py)  *)
(* work on frames of pixels: a frame is a record of its height, width and  *)
(* pixels, each pixel red or not with a gray level; a mask is a set of     *)
(* pixels <<y, x>>; a ratio of pixel counts is a fraction of 1.            *)
(***************************************************************************)
EXTENDS Integers, Sequences, FiniteSets, TLC

VARIABLES
    pc,            \* position in the pipeline
    video,         \* the decoded stream: per source frame its red ratio in units
                   \* (variant A) or the frame itself (variants B and C)
    backend,       \* the generator iter_frames is running: "pyav", "opencv" or "none"
    pos,           \* number of source frames the running backend has decoded
    next_t,        \* _iter_frames_pyav: earliest pts of the next sample
    ratios,        \* red ratio of each sample taken
    reader_name,   \* tag of the backend that delivered the last sample
    fps_period,    \* 1 / fps, in ticks
    thr,           \* threshold, in units
    k_s,           \* minimum duration, in ticks
    smooth_s,      \* smoothing window, in ticks
    times,         \* timestamps, in ticks
    deltas,        \* raw series handed to smooth_center
    smooth_deltas, \* smoothed series, fractions
    i,             \* scan index of extract_bleed_events
    in_event,      \* state of the scan: INSIDE (TRUE) / OUTSIDE (FALSE)
    start_idx,     \* first index of the open run
    events,        \* events emitted so far
    height,        \* frame height, in pixels
    width,         \* frame width, in pixels
    roi_margin,    \* ROI margin, in units of 1/MarginDen
    no_roi,        \* the ROI is disabled
    roi_mask,      \* None, or the set of pixels <<y, x>> inside the ROI
    roi_initialized, \* the first frame has been seen
    variant,       \* "A" redlog, "B" bleed_detector, "C" bleed_spread
    bg_norm_factor, \* gray-level difference that counts as a full change
    grid_size,     \* the frame is cut into grid_size x grid_size cells
    curr_bgr,      \* the frame in hand
    prev_bgr,      \* None, or the frame before it
    curr_cells,    \* None, or the cell ratios of the frame in hand
    prev_cells,    \* None, or the cell ratios of the frame before it
    metrics,       \* None, or the dict the metric engine returned last
    red_ratios,    \* variants B and C: red ratio of each sample
    newly_red_ratios, \* variant B, per sample
    bg_stabilities,   \* variant B, per sample
    red_expansions,   \* variant B, per sample
    max_cell_deltas,  \* variant C, per sample
    delta_stds,       \* variant C, per sample
    spread_scores,    \* variant C, per sample
    n_rising_cells_list, \* variant C, per sample
    csv,           \* None, or the rows of the CSV file written
    jsonl,         \* None, or the lines of the JSONL file written
    srt,           \* None, or the cues of the SRT file written
    videos,        \* make_proxy: the stems of the input videos of convert_batch
    force,         \* make_proxy: overwrite existing outputs
    existing,      \* make_proxy: the stems whose output file exists in outdir
    batch_i,       \* make_proxy: number of videos convert_batch has handled
    ffmpeg,        \* make_proxy: how the last ffmpeg run ended, "not_run" if none
    converted,     \* make_proxy: counter of convert_batch
    skipped,       \* make_proxy: counter of convert_batch
    failed,        \* make_proxy: counter of convert_batch
    outputs        \* make_proxy: the output paths convert_batch collected

vars == <<pc, video, backend, pos, next_t, ratios, reader_name,
          fps_period, thr, k_s, smooth_s, times, deltas, smooth_deltas,
          i, in_event, start_idx, events,
          height, width, roi_margin, no_roi, roi_mask, roi_initialized,
          variant, bg_norm_factor, grid_size, curr_bgr, prev_bgr, curr_cells,
          prev_cells, metrics, red_ratios, newly_red_ratios, bg_stabilities,
          red_expansions, max_cell_deltas, delta_stds, spread_scores,
          n_rising_cells_list, csv, jsonl, srt,
          videos, force, existing, batch_i, ffmpeg, converted, skipped, failed, outputs>>

----------------------------------------------------------------------------
(* Bounds of the model *)

MaxLen == 4
MaxFrames == 3
MaxVal == 2
MaxSmooth == 3
MaxK == 3
Quantum == 3
MaxSide == 4
MaxMargin == 8
MarginDen == 8
Periods == {1, 2}

Vals == 0 .. MaxVal

----------------------------------------------------------------------------
(* Arithmetic helpers *)

Max2(a, b) == IF a >= b THEN a ELSE b
Min2(a, b) == IF a <= b THEN a ELSE b

\* Python round() of the fraction n / d (d > 0) to an integer: nearest, ties to even.
PyRound(n, d) ==
    LET q == n \div d
        r == n % d
    IN  IF 2 * r < d THEN q
        ELSE IF 2 * r > d THEN q + 1
        ELSE IF q % 2 = 0 THEN q ELSE q + 1

\* Fractions <<num, den>>, den > 0.
FracGt(a, b) == a[1] * b[2] > b[1] * a[2]
FracEq(a, b) == a[1] * b[2] = b[1] * a[2]
FracOfInt(v) == <<v, 1>>
FracMin(a, b) == IF FracGt(a, b) THEN b ELSE a

RECURSIVE Gcd(_, _)
Gcd(a, b) == IF b = 0 THEN a ELSE Gcd(b, a % b)

\* the same value in lowest terms
FracNorm(x) ==
    LET g == Gcd(IF x[1] >= 0 THEN x[1] ELSE -x[1], x[2])
    IN  IF g = 0 THEN x ELSE <<x[1] \div g, x[2] \div g>>

FracMul(a, b) == FracNorm(<<a[1] * b[1], a[2] * b[2]>>)
FracSub(a, b) == FracNorm(<<a[1] * b[2] - b[1] * a[2], a[2] * b[2]>>)
FracAdd(a, b) == FracNorm(<<a[1] * b[2] + b[1] * a[2], a[2] * b[2]>>)

RECURSIVE SumSlice(_, _, _)
\* sum(values[lo:hi]) for 0-based lo, exclusive hi
SumSlice(values, lo, hi) ==
    IF lo >= hi THEN 0 ELSE values[lo + 1] + SumSlice(values, lo + 1, hi)

RECURSIVE MaxSlice(_, _, _)
\* max(smooth_deltas[lo:hi]) for 0-based lo, exclusive hi, lo < hi
MaxSlice(s, lo, hi) ==
    IF lo + 1 >= hi THEN s[lo + 1]
    ELSE LET rest == MaxSlice(s, lo + 1, hi)
         IN  IF FracGt(rest, s[lo + 1]) THEN rest ELSE s[lo + 1]

\* round(x, 6) of a fraction of units: the nearest multiple of Quantum, in units.
Round6(x) == Quantum * PyRound(x[1], x[2] * Quantum)

\* Optional values: None, or Some(x)
None == <<>>
Some(x) == <<x>>
Get(opt) == opt[1]

----------------------------------------------------------------------------
(* make_circular_roi.  A mask is the set of the pixels <<y, x>> that are   *)
(* True.  With margin = roi_margin / MarginDen, cy = h / 2 and cx = w / 2,  *)
(* dist <= radius is compared on the squares, scaled by (2 * MarginDen)^2;  *)
(* a negative radius is below every distance.                               *)

Pixels(h, w) == (0 .. h - 1) \X (0 .. w - 1)

\* 2 * MarginDen * radius, radius = min(height, width) * (0.5 - margin)
RoiRadius(h, w, margin) == Min2(h, w) * (MarginDen - 2 * margin)

\* (2 * dist)^2 for the pixel <<y, x>>
RoiDistSq(h, w, y, x) == (2 * x - w) * (2 * x - w) + (2 * y - h) * (2 * y - h)

InsideRoi(h, w, margin, y, x) ==
    /\ RoiRadius(h, w, margin) >= 0
    /\ RoiDistSq(h, w, y, x) * MarginDen * MarginDen
           <= RoiRadius(h, w, margin) * RoiRadius(h, w, margin)

MakeCircularRoi(h, w, margin) ==
    {p \in Pixels(h, w) : InsideRoi(h, w, margin, p[1], p[2])}

----------------------------------------------------------------------------
(* Frames.  A frame is [h, w, px]: its height, its width and, for every     *)
(* pixel <<y, x>>, whether its HSV value passes the two inRange tests of    *)
(* the red mask (red) and its gray level after BGR2GRAY (gray).  A ratio    *)
(* of pixel counts is a fraction <<num, den>> of 1.                         *)

\* red_mask = mask1 | mask2
RedMask(frame) == {p \in Pixels(frame.h, frame.w) : frame.px[p].red}

\* roi_mask is not None: mask & roi_u8
WithinRoi(mask, roi) == IF roi = None THEN mask ELSE mask \cap Get(roi)

\* total_pixels
TotalPixels(frame, roi) ==
    IF roi = None THEN frame.h * frame.w ELSE Cardinality(Get(roi))

ComputeRedRatio(frame, roi) ==
    IF TotalPixels(frame, roi) = 0
    THEN <<0, 1>>
    ELSE <<Cardinality(WithinRoi(RedMask(frame), roi)), TotalPixels(frame, roi)>>

----------------------------------------------------------------------------
(* compute_red_expansion *)

AbsDiff(a, b) == IF a >= b THEN a - b ELSE b - a

RECURSIVE SumFrameDiff(_, _, _)
\* np.sum(frame_diff[mask > 0]), frame_diff = cv2.absdiff(gray_prev, gray_curr)
SumFrameDiff(prev, curr, mask) ==
    IF mask = {} THEN 0
    ELSE LET p == CHOOSE q \in mask : TRUE
         IN  AbsDiff(prev.px[p].gray, curr.px[p].gray)
                 + SumFrameDiff(prev, curr, mask \ {p})

\* non_red = ~(red_prev | red_curr), within the ROI
NonRed(prev, curr, roi) ==
    WithinRoi(Pixels(curr.h, curr.w)
                  \ (WithinRoi(RedMask(prev), roi) \cup WithinRoi(RedMask(curr), roi)),
              roi)

\* bg_diff: mean gray difference over the pixels red in neither frame
BgDiff(prev, curr, roi) ==
    LET non_red == NonRed(prev, curr, roi)
    IN  IF Cardinality(non_red) > 0
        THEN <<SumFrameDiff(prev, curr, non_red), Cardinality(non_red)>>
        ELSE <<0, 1>>

\* variant: the quotient is not capped at 1
BgStabilityUncapped(bg_diff, norm) ==
    FracSub(<<1, 1>>, <<bg_diff[1], bg_diff[2] * norm>>)

\* bg_stability = 1.0 - min(bg_diff / bg_norm_factor, 1.0)
BgStability(bg_diff, norm) ==
    FracSub(<<1, 1>>, FracMin(<<bg_diff[1], bg_diff[2] * norm>>, <<1, 1>>))

\* newly_red_ratio: red now and not red before, within the ROI
NewlyRedRatio(prev, curr, roi) ==
    <<Cardinality(WithinRoi(WithinRoi(RedMask(curr), roi)
                                \ WithinRoi(RedMask(prev), roi), roi)),
      TotalPixels(curr, roi)>>

\* variant: the zero total is not guarded
ComputeRedExpansionUnguarded(prev, curr, roi, norm) ==
    [red_ratio |-> <<Cardinality(WithinRoi(RedMask(curr), roi)), TotalPixels(curr, roi)>>,
     newly_red_ratio |-> NewlyRedRatio(prev, curr, roi),
     bg_stability |-> BgStability(BgDiff(prev, curr, roi), norm),
     red_expansion |-> FracMul(NewlyRedRatio(prev, curr, roi),
                               BgStability(BgDiff(prev, curr, roi), norm))]

ComputeRedExpansion(prev, curr, roi, norm) ==
    IF TotalPixels(curr, roi) = 0
    THEN [red_ratio |-> <<0, 1>>,
          newly_red_ratio |-> <<0, 1>>,
          bg_stability |-> <<1, 1>>,
          red_expansion |-> <<0, 1>>]
    ELSE [red_ratio |-> <<Cardinality(WithinRoi(RedMask(curr), roi)),
                           TotalPixels(curr, roi)>>,
          newly_red_ratio |-> NewlyRedRatio(prev, curr, roi),
          bg_stability |-> BgStability(BgDiff(prev, curr, roi), norm),
          red_expansion |-> FracMul(NewlyRedRatio(prev, curr, roi),
                                    BgStability(BgDiff(prev, curr, roi), norm))]

----------------------------------------------------------------------------
(* compute_cell_ratios *)

Cells(grid) == (0 .. grid - 1) \X (0 .. grid - 1)

\* the pixels [y0, y1) x [x0, x1) of the cell <<r, c>>, y0 = int(r * (h / grid))
CellPixels(frame, grid, cell) ==
    {p \in Pixels(frame.h, frame.w) :
        /\ (cell[1] * frame.h) \div grid <= p[1]
        /\ p[1] < ((cell[1] + 1) * frame.h) \div grid
        /\ (cell[2] * frame.w) \div grid <= p[2]
        /\ p[2] < ((cell[2] + 1) * frame.w) \div grid}

\* total: the cell's pixels inside the ROI
CellTotal(frame, grid, roi, cell) ==
    Cardinality(WithinRoi(CellPixels(frame, grid, cell), roi))

CellRatio(frame, grid, roi, cell) ==
    IF CellTotal(frame, grid, roi, cell) > 0
    THEN <<Cardinality(WithinRoi(RedMask(frame), roi) \cap CellPixels(frame, grid, cell)),
           CellTotal(frame, grid, roi, cell)>>
    ELSE <<0, 1>>

ComputeCellRatios(frame, grid, roi) ==
    [cell \in Cells(grid) |-> CellRatio(frame, grid, roi, cell)]

----------------------------------------------------------------------------
(* compute_spread_score.  np.std is a square root: delta_std is carried as  *)
(* its square, the population variance delta_var, and spread_score =        *)
(* delta_std * max_cell_delta as its square; both are >= 0, so order and    *)
(* zero are those of the squares.                                           *)

\* cell_deltas = curr_cells - prev_cells
CellDelta(prev, curr, cell) == FracSub(curr[cell], prev[cell])

\* the k-th cell of the grid, row by row
CellAt(grid, k) == <<k \div grid, k % grid>>

RECURSIVE SumDeltas(_, _, _, _)
\* sum of cell_deltas over the first k cells
SumDeltas(prev, curr, grid, k) ==
    IF k = 0 THEN <<0, 1>>
    ELSE FracAdd(CellDelta(prev, curr, CellAt(grid, k - 1)),
                 SumDeltas(prev, curr, grid, k - 1))

RECURSIVE SumSqDev(_, _, _, _, _)
\* sum of (cell_delta - mean)^2 over the first k cells
SumSqDev(prev, curr, grid, mean, k) ==
    IF k = 0 THEN <<0, 1>>
    ELSE LET dev == FracSub(CellDelta(prev, curr, CellAt(grid, k - 1)), mean)
         IN  FracAdd(FracMul(dev, dev), SumSqDev(prev, curr, grid, mean, k - 1))

\* variant: the spread around 0 in place of the spread around the mean
DeltaVarRaw(prev, curr, grid) ==
    LET n == grid * grid
        total == SumSqDev(prev, curr, grid, <<0, 1>>, n)
    IN  FracNorm(<<total[1], total[2] * n>>)

\* np.std(cell_deltas) ** 2
DeltaVar(prev, curr, grid) ==
    LET n == grid * grid
        sum == SumDeltas(prev, curr, grid, n)
        total == SumSqDev(prev, curr, grid, <<sum[1], sum[2] * n>>, n)
    IN  FracNorm(<<total[1], total[2] * n>>)

\* positive_deltas = np.maximum(cell_deltas, 0.0)
PositiveDelta(prev, curr, cell) ==
    IF CellDelta(prev, curr, cell)[1] > 0 THEN CellDelta(prev, curr, cell) ELSE <<0, 1>>

\* variant: the smallest of the positive_deltas in place of the largest
MinCellDelta(prev, curr, grid) ==
    CHOOSE m \in {PositiveDelta(prev, curr, c) : c \in Cells(grid)} :
        \A c \in Cells(grid) : ~FracGt(m, PositiveDelta(prev, curr, c))

\* max_cell_delta = np.max(positive_deltas)
MaxCellDelta(prev, curr, grid) ==
    CHOOSE m \in {PositiveDelta(prev, curr, c) : c \in Cells(grid)} :
        \A c \in Cells(grid) : ~FracGt(PositiveDelta(prev, curr, c), m)

\* n_rising = np.sum(positive_deltas > 0.01)
NRising(prev, curr, grid) ==
    Cardinality({c \in Cells(grid) : FracGt(PositiveDelta(prev, curr, c), <<1, 100>>)})

ComputeSpreadScore(prev, curr, grid) ==
    [max_cell_delta |-> MaxCellDelta(prev, curr, grid),
     delta_var |-> DeltaVar(prev, curr, grid),
     n_rising_cells |-> NRising(prev, curr, grid)]

\* spread_score ** 2, spread_score = delta_std * max_cell_delta
SpreadScoreSq(m) == FracMul(m.delta_var, FracMul(m.max_cell_delta, m.max_cell_delta))

\* the frame of h x w pixels that are all red
AllRed(h, w) ==
    [h |-> h, w |-> w, px |-> [p \in Pixels(h, w) |-> [red |-> TRUE, gray |-> 0]]]

----------------------------------------------------------------------------
(* smooth_center *)

SmoothHalf(window) == window \div 2

SmoothLo(idx, half) == Max2(0, idx - half)

\* variant: the window's upper end without the + 1
SmoothHiShort(n, idx, half) == Min2(n, idx + half)

SmoothHi(n, idx, half) == Min2(n, idx + half + 1)

\* variant: the window's sum, not divided by its size
SmoothAtSum(values, idx, half) ==
    <<SumSlice(values, SmoothLo(idx, half), SmoothHi(Len(values), idx, half)), 1>>

SmoothAt(values, idx, half) ==
    LET lo == SmoothLo(idx, half)
        hi == SmoothHi(Len(values), idx, half)
    IN  <<SumSlice(values, lo, hi), hi - lo>>

\* variant: only the indices whose window fits entirely in the series
SmoothCenterValid(values, window) ==
    LET half == SmoothHalf(window)
        m == Max2(0, Len(values) - 2 * half)
    IN  [j \in 1 .. m |-> SmoothAt(values, j - 1 + half, half)]

SmoothCenter(values, window) ==
    IF Len(values) = 0 \/ window <= 1
    THEN [j \in 1 .. Len(values) |-> FracOfInt(values[j])]
    ELSE [j \in 1 .. Len(values) |-> SmoothAt(values, j - 1, SmoothHalf(window))]

\* window_size = max(1, int(round(smooth_s * fps)))
WindowSize(smooth, period) == Max2(1, PyRound(smooth, period))

----------------------------------------------------------------------------
(* extract_bleed_events *)

\* variant: int() truncation in place of round()
MinSamplesTrunc(k, period) == Max2(1, k \div period)

\* min_samples = max(1, int(round(k_s * fps)))
MinSamples(k, period) ==
    Max2(1, IF period < 0 THEN -PyRound(k, -period) ELSE PyRound(k, period))

\* variant: >= in place of >
AboveOrEqual(s, idx, threshold) ==
    FracGt(s[idx + 1], FracOfInt(threshold)) \/ FracEq(s[idx + 1], FracOfInt(threshold))

Above(s, idx, threshold) == FracGt(s[idx + 1], FracOfInt(threshold))

\* variants: > in place of >=, and a run one sample short accepted
LongEnoughStrict(length, min_samples) == length > min_samples

LongEnoughLoose(length, min_samples) == length >= min_samples - 1

LongEnough(length, min_samples) == length >= min_samples

\* variant: the run's first value in place of its maximum
DeltaMaxFirst(s, lo, hi) == Round6(s[lo + 1])

DeltaMax(s, lo, hi) == Round6(MaxSlice(s, lo, hi))

\* variant: the timestamp one sample before the run
EventStartEarly(t, lo, hi) == t[Max2(1, lo)]

EventStart(t, lo, hi) == t[lo + 1]

EventEnd(t, lo, hi) == t[hi]

\* _add_event: the record appended for the run [lo, hi)
NewEvent(t, s, lo, hi, threshold, k, smooth) ==
    [type |-> "bleed_candidate",
     metric |-> "red_ratio",
     thr |-> threshold,
     k_s |-> k,
     smooth_s |-> smooth,
     delta_max |-> DeltaMax(s, lo, hi),
     start |-> EventStart(t, lo, hi),
     end |-> EventEnd(t, lo, hi)]

AddEvent(evs, t, s, lo, hi, threshold, k, smooth) ==
    Append(evs, NewEvent(t, s, lo, hi, threshold, k, smooth))

----------------------------------------------------------------------------
(* Second pass of analyze_video: smoothing, then the scan *)

\* the state of make_proxy.convert_batch
proxyVars == <<videos, force, existing, batch_i, ffmpeg, converted, skipped, failed,
               outputs>>

\* convert_batch is not called
NoProxy ==
    /\ videos = <<>>
    /\ force = FALSE
    /\ existing = {}
    /\ batch_i = 0
    /\ ffmpeg = "not_run"
    /\ converted = 0
    /\ skipped = 0
    /\ failed = 0
    /\ outputs = <<>>

configVars == <<fps_period, thr, k_s, smooth_s, height, width, roi_margin, no_roi,
                variant, bg_norm_factor, grid_size>>

\* the series and the frame history of variants B and C
metricVars == <<curr_bgr, prev_bgr, curr_cells, prev_cells, metrics, red_ratios,
                newly_red_ratios, bg_stabilities, red_expansions, max_cell_deltas,
                delta_stds, spread_scores, n_rising_cells_list>>

\* the files written
fileVars == <<csv, jsonl, srt>>

sourceVars == <<video, proxyVars, backend, pos, next_t, ratios, reader_name,
                roi_mask, roi_initialized, metricVars>>

loopVars == <<smooth_deltas, i, in_event, start_idx, events, deltas, fileVars>>

\* smooth_deltas = smooth_center(deltas, window_size)
Smooth ==
    /\ pc = "smooth"
    /\ smooth_deltas' = SmoothCenter(deltas, WindowSize(smooth_s, fps_period))
    /\ pc' = "extract"
    /\ UNCHANGED <<sourceVars, configVars, fileVars, times, deltas, i, in_event,
                   start_idx, events>>

\* extract_bleed_events up to the loop: an empty series returns at once
ExtractBegin ==
    /\ pc = "extract"
    /\ events' = <<>>
    /\ IF Len(smooth_deltas) = 0
       THEN pc' = "done" /\ UNCHANGED <<in_event, start_idx, i>>
       ELSE pc' = "scan" /\ in_event' = FALSE /\ start_idx' = 0 /\ i' = 0
    /\ UNCHANGED <<sourceVars, configVars, fileVars, times, deltas, smooth_deltas>>

\* one iteration of the loop over range(n)
ScanStep ==
    /\ pc = "scan"
    /\ i < Len(smooth_deltas)
    /\ LET above == Above(smooth_deltas, i, thr)
           min_samples == MinSamples(k_s, fps_period)
       IN  \/ /\ above /\ ~in_event
              /\ in_event' = TRUE
              /\ start_idx' = i
              /\ UNCHANGED events
           \/ /\ ~above /\ in_event
              /\ in_event' = FALSE
              /\ events' = IF LongEnough(i - start_idx, min_samples)
                           THEN AddEvent(events, times, smooth_deltas, start_idx, i,
                                         thr, k_s, smooth_s)
                           ELSE events
              /\ UNCHANGED start_idx
           \/ /\ above = in_event
              /\ UNCHANGED <<in_event, start_idx, events>>
    /\ i' = i + 1
    /\ UNCHANGED <<pc, sourceVars, configVars, fileVars, times, deltas, smooth_deltas>>

\* after the loop: a run still open is closed at n
ScanEnd ==
    /\ pc = "scan"
    /\ i = Len(smooth_deltas)
    /\ LET n == Len(smooth_deltas)
           min_samples == MinSamples(k_s, fps_period)
       IN  events' = IF in_event /\ LongEnough(n - start_idx, min_samples)
                     THEN AddEvent(events, times, smooth_deltas, start_idx, n,
                                   thr, k_s, smooth_s)
                     ELSE events
    /\ pc' = "done"
    /\ UNCHANGED <<sourceVars, configVars, fileVars, times, deltas, smooth_deltas, i,
                   in_event, start_idx>>

----------------------------------------------------------------------------
(* Specification of the second pass over every bounded series *)

SeriesOfLen(n) == [1 .. n -> Vals]

\* no frame is involved: the series is given
NoFrames ==
    /\ height = 0
    /\ width = 0
    /\ roi_margin = 0
    /\ no_roi = FALSE
    /\ roi_mask = None
    /\ roi_initialized = FALSE

UniformTimes(n, period) == [j \in 1 .. n |-> (j - 1) * period]

\* no frame pair, no metric series
NoMetrics ==
    /\ variant = "A"
    /\ bg_norm_factor = 0
    /\ grid_size = 0
    /\ curr_bgr = None
    /\ prev_bgr = None
    /\ curr_cells = None
    /\ prev_cells = None
    /\ metrics = None
    /\ red_ratios = <<>>
    /\ newly_red_ratios = <<>>
    /\ bg_stabilities = <<>>
    /\ red_expansions = <<>>
    /\ max_cell_deltas = <<>>
    /\ delta_stds = <<>>
    /\ spread_scores = <<>>
    /\ n_rising_cells_list = <<>>

\* no file written
NoFiles ==
    /\ csv = None
    /\ jsonl = None
    /\ srt = None

InitSeries ==
    /\ pc = "smooth"
    /\ video = <<>>
    /\ NoProxy
    /\ backend = "none"
    /\ pos = 0
    /\ next_t = 0
    /\ ratios = <<>>
    /\ reader_name = "opencv"
    /\ fps_period \in Periods
    /\ thr \in Vals
    /\ k_s \in 0 .. MaxK
    /\ smooth_s \in 0 .. MaxSmooth
    /\ \E n \in 0 .. MaxLen :
          /\ deltas \in SeriesOfLen(n)
          /\ times = UniformTimes(n, fps_period)
    /\ smooth_deltas = <<>>
    /\ i = 0
    /\ in_event = FALSE
    /\ start_idx = 0
    /\ events = <<>>
    /\ NoFrames
    /\ NoMetrics
    /\ NoFiles

\* no session is running: no frame source, no second pass
NoSource ==
    /\ video = <<>>
    /\ backend = "none"
    /\ pos = 0
    /\ next_t = 0
    /\ ratios = <<>>
    /\ reader_name = "opencv"
    /\ times = <<>>

NoSecondPass ==
    /\ fps_period = 1
    /\ thr = 0
    /\ k_s = 0
    /\ smooth_s = 0
    /\ deltas = <<>>
    /\ smooth_deltas = <<>>
    /\ i = 0
    /\ in_event = FALSE
    /\ start_idx = 0
    /\ events = <<>>

NextSeries == Smooth \/ ExtractBegin \/ ScanStep \/ ScanEnd

SpecSeries == InitSeries /\ [][NextSeries]_vars

----------------------------------------------------------------------------
(* smooth_center in floating point.  A float here has FloatBits significant *)
(* bits in place of the 53 of a double and is counted in units of its       *)
(* smallest step; every addition of sum() and the division are rounded to   *)
(* the nearest float, ties to even, as IEEE 754 does.                       *)

FloatBits == 3

MaxFloat == 16

\* the spacing of the floats around the non-negative fraction x
FloatStep(x) ==
    CHOOSE p \in {2 ^ e : e \in 0 .. 8} :
        /\ x[1] < x[2] * p * 2 ^ FloatBits
        /\ p = 1 \/ x[1] >= x[2] * (p \div 2) * 2 ^ FloatBits

\* the float nearest to x
Fl(x) == FloatStep(x) * PyRound(x[1], x[2] * FloatStep(x))

FloatVals == {v \in 0 .. MaxFloat : Fl(<<v, 1>>) = v}

RECURSIVE FloatSum(_, _, _)
\* sum(values[lo:hi]), added from the left, each partial sum a float
FloatSum(values, lo, hi) ==
    IF lo >= hi THEN 0 ELSE Fl(<<FloatSum(values, lo, hi - 1) + values[hi], 1>>)

\* sum(values[lo:hi]) / (hi - lo)
SmoothAtFloat(values, idx, half) ==
    LET lo == SmoothLo(idx, half)
        hi == SmoothHi(Len(values), idx, half)
    IN  Fl(<<FloatSum(values, lo, hi), hi - lo>>)

SmoothCenterFloat(values, window) ==
    IF Len(values) = 0 \/ window <= 1 THEN values
    ELSE [j \in 1 .. Len(values) |-> SmoothAtFloat(values, j - 1, SmoothHalf(window))]

InitFloat ==
    /\ pc = "float_call"
    /\ \E n \in 0 .. MaxFrames : deltas \in [1 .. n -> FloatVals]
    /\ smooth_s \in 0 .. MaxSmooth
    /\ fps_period = 1
    /\ thr = 0
    /\ k_s = 0
    /\ smooth_deltas = <<>>
    /\ i = 0
    /\ in_event = FALSE
    /\ start_idx = 0
    /\ events = <<>>
    /\ NoSource
    /\ NoProxy
    /\ NoFrames
    /\ NoMetrics
    /\ NoFiles

\* smooth_center(values, window) on floats
CallSmoothCenterFloat ==
    /\ pc = "float_call"
    /\ smooth_deltas' =
           [j \in 1 .. Len(deltas) |->
               FracOfInt(SmoothCenterFloat(deltas, WindowSize(smooth_s, fps_period))[j])]
    /\ pc' = "float_done"
    /\ UNCHANGED <<sourceVars, configVars, fileVars, times, deltas, i, in_event,
                   start_idx, events>>

NextFloat == CallSmoothCenterFloat

SpecFloat == InitFloat /\ [][NextFloat]_vars

----------------------------------------------------------------------------
(* Specification of make_circular_roi on every bounded size and margin *)

InitRoi ==
    /\ pc = "roi_call"
    /\ height \in 1 .. MaxSide
    /\ width \in 1 .. MaxSide
    /\ roi_margin \in 0 .. MaxMargin
    /\ no_roi = FALSE
    /\ roi_mask = None
    /\ roi_initialized = FALSE
    /\ NoSource
    /\ NoProxy
    /\ NoSecondPass
    /\ NoMetrics
    /\ NoFiles

\* roi_mask = make_circular_roi(h, w, margin=roi_margin)
CallMakeCircularRoi ==
    /\ pc = "roi_call"
    /\ roi_mask' = Some(MakeCircularRoi(height, width, roi_margin))
    /\ pc' = "roi_done"
    /\ UNCHANGED <<video, proxyVars, backend, pos, next_t, ratios, reader_name, roi_initialized,
                   metricVars, times, configVars, loopVars>>

NextRoi == CallMakeCircularRoi

SpecRoi == InitRoi /\ [][NextRoi]_vars

----------------------------------------------------------------------------
(* Specification of the metric engines on every bounded frame pair and ROI *)

GrayLevels == {0, 20}

NormFactors == {10, 30}

GridSizes == {1, 2}

FrameShapes == {<<1, 3>>, <<2, 1>>}

FramesOf(h, w) ==
    {[h |-> h, w |-> w, px |-> f] :
        f \in [Pixels(h, w) -> [red : BOOLEAN, gray : GrayLevels]]}

\* every boolean mask of h x w pixels, and no mask
RoisOf(h, w) == {None} \cup {Some(m) : m \in SUBSET Pixels(h, w)}

InitMetrics ==
    /\ pc = "metric_call"
    /\ \E hw \in FrameShapes :
          /\ height = hw[1]
          /\ width = hw[2]
          /\ curr_bgr \in {Some(f) : f \in FramesOf(hw[1], hw[2])}
          /\ prev_bgr \in {Some(f) : f \in FramesOf(hw[1], hw[2])}
          /\ roi_mask \in RoisOf(hw[1], hw[2])
    /\ roi_margin = 0
    /\ no_roi = FALSE
    /\ roi_initialized = TRUE
    /\ variant = "B"
    /\ bg_norm_factor = 0
    /\ grid_size = 0
    /\ curr_cells = None
    /\ prev_cells = None
    /\ metrics = None
    /\ red_ratios = <<>>
    /\ newly_red_ratios = <<>>
    /\ bg_stabilities = <<>>
    /\ red_expansions = <<>>
    /\ max_cell_deltas = <<>>
    /\ delta_stds = <<>>
    /\ spread_scores = <<>>
    /\ n_rising_cells_list = <<>>
    /\ NoSource
    /\ NoProxy
    /\ NoSecondPass
    /\ NoFiles

\* what a call of a metric engine leaves alone
callFrame == <<video, proxyVars, backend, pos, next_t, ratios, reader_name, times, loopVars,
               fps_period, thr, k_s, smooth_s, height, width, roi_margin, no_roi,
               variant, roi_mask, roi_initialized, curr_bgr, prev_bgr, prev_cells,
               red_ratios, newly_red_ratios, bg_stabilities, red_expansions,
               max_cell_deltas, delta_stds, spread_scores, n_rising_cells_list>>

\* ratio = compute_red_ratio(bgr, roi_mask)
CallComputeRedRatio ==
    /\ pc = "metric_call"
    /\ metrics' = Some([red_ratio |-> ComputeRedRatio(Get(curr_bgr), roi_mask)])
    /\ pc' = "ratio_done"
    /\ UNCHANGED <<callFrame, bg_norm_factor, grid_size, curr_cells>>

\* metrics = compute_red_expansion(prev_bgr, bgr, roi_mask, bg_norm_factor=...)
CallComputeRedExpansion ==
    /\ pc = "metric_call"
    /\ \E norm \in NormFactors :
          /\ bg_norm_factor' = norm
          /\ metrics' = Some(ComputeRedExpansion(Get(prev_bgr), Get(curr_bgr),
                                                  roi_mask, norm))
    /\ pc' = "expansion_done"
    /\ UNCHANGED <<callFrame, grid_size, curr_cells>>

\* curr_cells = compute_cell_ratios(bgr, grid_size=..., roi_mask=roi_mask)
CallComputeCellRatios ==
    /\ pc = "metric_call"
    /\ \E grid \in GridSizes :
          /\ grid_size' = grid
          /\ curr_cells' = Some(ComputeCellRatios(Get(curr_bgr), grid, roi_mask))
    /\ pc' = "cells_done"
    /\ UNCHANGED <<callFrame, bg_norm_factor, metrics>>

NextMetrics == CallComputeRedRatio \/ CallComputeRedExpansion \/ CallComputeCellRatios

SpecMetrics == InitMetrics /\ [][NextMetrics]_vars

----------------------------------------------------------------------------
(* Specification of compute_spread_score on every bounded pair of grids *)

MaxCell == 2
CellDen == 10

\* the grids of 2 x 2 cells with ratios 0/CellDen .. MaxCell/CellDen
GridsOf(grid) == [Cells(grid) -> {<<v, CellDen>> : v \in 0 .. MaxCell}]

InitGrid ==
    /\ pc = "spread_call"
    /\ grid_size = 2
    /\ prev_cells \in {Some(g) : g \in GridsOf(2)}
    /\ curr_cells \in {Some(g) : g \in GridsOf(2)}
    /\ metrics = None
    /\ variant = "C"
    /\ bg_norm_factor = 0
    /\ curr_bgr = None
    /\ prev_bgr = None
    /\ red_ratios = <<>>
    /\ newly_red_ratios = <<>>
    /\ bg_stabilities = <<>>
    /\ red_expansions = <<>>
    /\ max_cell_deltas = <<>>
    /\ delta_stds = <<>>
    /\ spread_scores = <<>>
    /\ n_rising_cells_list = <<>>
    /\ NoFrames
    /\ NoSource
    /\ NoProxy
    /\ NoSecondPass
    /\ NoFiles

\* metrics = compute_spread_score(prev_cells, curr_cells)
CallComputeSpreadScore ==
    /\ pc = "spread_call"
    /\ metrics' = Some(ComputeSpreadScore(Get(prev_cells), Get(curr_cells), grid_size))
    /\ pc' = "spread_done"
    /\ UNCHANGED <<callFrame, bg_norm_factor, grid_size, curr_cells>>

NextGrid == CallComputeSpreadScore

SpecGrid == InitGrid /\ [][NextGrid]_vars

----------------------------------------------------------------------------
(* Frame source: iter_frames and its two backends.  Source frame number j  *)
(* (0-based) is presented at tick j; PyAV may find a frame without a pts.  *)

FramePts(j) == j

\* compute_red_ratio of source frame j under the session's ROI
FrameRatio(v, j) == v[j + 1]

\* step = max(1, int(round(src_fps / fps))), one source frame per tick
OpencvStep(period) == Max2(1, PyRound(period, 1))

\* what the body of the sampling loop writes
sampleVars == <<times, ratios, reader_name, roi_mask, roi_initialized, metricVars>>

\* variant: no_roi is ignored
RoiOfFrameAlways(h, w) ==
    IF roi_initialized THEN roi_mask ELSE Some(MakeCircularRoi(h, w, roi_margin))

\* the ROI after a frame of h x w pixels: made on the first frame only
RoiOfFrame(h, w) ==
    IF roi_initialized THEN roi_mask
    ELSE IF no_roi THEN None
    ELSE Some(MakeCircularRoi(h, w, roi_margin))

\* the body of the sampling loop of analyze_video for one delivered sample
TakeSample(t_sec, ratio, reader) ==
    /\ reader_name' = reader
    /\ roi_mask' = RoiOfFrame(height, width)
    /\ roi_initialized' = TRUE
    /\ times' = Append(times, t_sec)
    /\ ratios' = Append(ratios, ratio)
    /\ UNCHANGED metricVars

\* the square root of a fraction that is the square of a fraction
ExactSqrt(f) ==
    LET g == FracNorm(f)
    IN  <<CHOOSE r \in 0 .. g[1] : r * r = g[1], CHOOSE r \in 1 .. g[2] : r * r = g[2]>>

\* variant: the first frame stays the frame every later one is compared with
RetainedFirst(prev, x) == IF prev = None THEN Some(x) ELSE prev

\* prev_bgr = bgr.copy(), prev_cells = curr_cells.copy()
Retained(prev, x) == Some(x)

\* variant: the first frame's own red ratio is not taken
FirstFrameBlank(frame, roi) ==
    [red_ratio |-> <<0, 1>>,
     newly_red_ratio |-> <<0, 1>>,
     bg_stability |-> <<1, 1>>,
     red_expansion |-> <<0, 1>>]

\* the first frame of bleed_detector.record_timeseries has nothing to compare with
FirstFrameMetrics(frame, roi) ==
    [red_ratio |-> ComputeRedRatio(frame, roi),
     newly_red_ratio |-> <<0, 1>>,
     bg_stability |-> <<1, 1>>,
     red_expansion |-> <<0, 1>>]

\* the body of the sampling loop of bleed_detector.record_timeseries
TakeSampleB(t_sec, frame, reader) ==
    \E roi \in {RoiOfFrame(frame.h, frame.w)} :
    \E m \in {IF prev_bgr = None
               THEN FirstFrameMetrics(frame, roi)
               ELSE ComputeRedExpansion(Get(prev_bgr), frame, roi, bg_norm_factor)} :
        /\ reader_name' = reader
        /\ roi_mask' = roi
        /\ roi_initialized' = TRUE
        /\ metrics' = IF prev_bgr = None THEN metrics ELSE Some(m)
        /\ times' = Append(times, t_sec)
        /\ red_ratios' = Append(red_ratios, m.red_ratio)
        /\ newly_red_ratios' = Append(newly_red_ratios, m.newly_red_ratio)
        /\ bg_stabilities' = Append(bg_stabilities, m.bg_stability)
        /\ red_expansions' = Append(red_expansions, m.red_expansion)
        /\ curr_bgr' = Some(frame)
        /\ prev_bgr' = Retained(prev_bgr, frame)
        /\ UNCHANGED <<ratios, curr_cells, prev_cells, max_cell_deltas, delta_stds,
                       spread_scores, n_rising_cells_list>>

\* what the first frame of bleed_spread.record_timeseries appends
FirstFrameSpread ==
    [max_cell_delta |-> <<0, 1>>,
     delta_std |-> <<0, 1>>,
     spread_score |-> <<0, 1>>,
     n_rising_cells |-> 0]

\* compute_spread_score with delta_std and spread_score themselves
SpreadMetrics(prev, curr, grid) ==
    LET max_cell_delta == MaxCellDelta(prev, curr, grid)
        delta_std == ExactSqrt(DeltaVar(prev, curr, grid))
    IN  [max_cell_delta |-> max_cell_delta,
         delta_std |-> delta_std,
         spread_score |-> FracMul(delta_std, max_cell_delta),
         n_rising_cells |-> NRising(prev, curr, grid)]

\* the body of the sampling loop of bleed_spread.record_timeseries
TakeSampleC(t_sec, frame, reader) ==
    \E roi \in {RoiOfFrame(frame.h, frame.w)} :
    \E cells \in {ComputeCellRatios(frame, grid_size, roi)} :
    \E m \in {IF prev_cells = None THEN FirstFrameSpread
               ELSE SpreadMetrics(Get(prev_cells), cells, grid_size)} :
        /\ reader_name' = reader
        /\ roi_mask' = roi
        /\ roi_initialized' = TRUE
        /\ curr_bgr' = Some(frame)
        /\ curr_cells' = Some(cells)
        /\ metrics' = IF prev_cells = None THEN metrics ELSE Some(m)
        /\ times' = Append(times, t_sec)
        /\ red_ratios' = Append(red_ratios, ComputeRedRatio(frame, roi))
        /\ max_cell_deltas' = Append(max_cell_deltas, m.max_cell_delta)
        /\ delta_stds' = Append(delta_stds, m.delta_std)
        /\ spread_scores' = Append(spread_scores, m.spread_score)
        /\ n_rising_cells_list' = Append(n_rising_cells_list, m.n_rising_cells)
        /\ prev_cells' = Retained(prev_cells, cells)
        /\ UNCHANGED <<ratios, prev_bgr, newly_red_ratios, bg_stabilities, red_expansions>>

\* the loop body of the variant in hand, for source frame j
SampleBody(t_sec, j, reader) ==
    CASE variant = "A" -> TakeSample(t_sec, FrameRatio(video, j), reader)
      [] variant = "B" -> TakeSampleB(t_sec, video[j + 1], reader)
      [] variant = "C" -> TakeSampleC(t_sec, video[j + 1], reader)

\* _iter_frames_pyav decodes one frame: a sample when it has a pts that has
\* reached next_t
PyavFrame ==
    /\ pc = "sampling"
    /\ backend = "pyav"
    /\ pos < Len(video)
    /\ \/ /\ FramePts(pos) >= next_t
          /\ SampleBody(FramePts(pos), pos, "pyav")
          /\ next_t' = FramePts(pos) + fps_period
       \/ /\ FramePts(pos) < next_t
          /\ UNCHANGED <<sampleVars, next_t>>
       \/ \* frame.pts is None: continue
          UNCHANGED <<sampleVars, next_t>>
    /\ pos' = pos + 1
    /\ UNCHANGED <<pc, video, proxyVars, backend, configVars, loopVars>>

\* the PyAV attempt raises (import, open, decode or close): iter_frames swallows
\* the exception and starts _iter_frames_opencv on the same file
PyavRaise ==
    /\ pc = "sampling"
    /\ backend = "pyav"
    /\ backend' = "opencv"
    /\ pos' = 0
    /\ UNCHANGED <<pc, video, proxyVars, next_t, sampleVars, configVars, loopVars>>

\* _iter_frames_opencv reads one frame: a sample when idx % step == 0
OpencvFrame ==
    /\ pc = "sampling"
    /\ backend = "opencv"
    /\ pos < Len(video)
    /\ \/ /\ pos % OpencvStep(fps_period) = 0
          /\ SampleBody(FramePts(pos), pos, "opencv")
       \/ /\ pos % OpencvStep(fps_period) # 0
          /\ UNCHANGED sampleVars
    /\ pos' = pos + 1
    /\ UNCHANGED <<pc, video, proxyVars, backend, next_t, configVars, loopVars>>

\* cv2.VideoCapture cannot open the file: ValueError leaves analyze_video
OpencvOpenFails ==
    /\ pc = "sampling"
    /\ backend = "opencv"
    /\ pos = 0
    /\ pc' = "raised"
    /\ UNCHANGED <<sourceVars, times, configVars, loopVars>>

\* variant: the differences alone, without the leading 0.0
DeltasBare(r) == [j \in 1 .. Len(r) - 1 |-> r[j + 1] - r[j]]

\* deltas = [0.0] + [ratios[i] - ratios[i - 1] for i in range(1, len(ratios))]
Deltas(r) == [j \in 1 .. Len(r) |-> IF j = 1 THEN 0 ELSE r[j] - r[j - 1]]

\* variant: the series is handed on without the check for no sample
EndOfFramesUnchecked ==
    /\ pc = "sampling"
    /\ variant = "A"
    /\ backend \in {"pyav", "opencv"}
    /\ pos = Len(video)
    /\ pc' = "smooth"
    /\ deltas' = Deltas(ratios)
    /\ UNCHANGED <<sourceVars, times, configVars, fileVars, smooth_deltas, i, in_event,
                   start_idx, events>>

\* the running backend is exhausted: the loop ends; no sample at all returns {}
EndOfFrames ==
    /\ pc = "sampling"
    /\ variant = "A"
    /\ backend \in {"pyav", "opencv"}
    /\ pos = Len(video)
    /\ IF Len(times) = 0
       THEN pc' = "nodata" /\ UNCHANGED deltas
       ELSE pc' = "smooth" /\ deltas' = Deltas(ratios)
    /\ UNCHANGED <<sourceVars, times, configVars, fileVars, smooth_deltas, i, in_event,
                   start_idx, events>>

----------------------------------------------------------------------------
(* The files.  One tick is 0.1 s, so that f"{t:.3f}" keeps every timestamp; *)
(* f"{x:.6f}" rounds a value to the grid of round(x, 6).  A CSV row and a   *)
(* JSONL line are records of the values written, without the t_srt,         *)
(* start_srt and end_srt texts derived from them.                           *)

\* 1 / 5.0 fps, in ticks
DefaultPeriod == 2

\* 1.0 in units
UnitsPerOne == 1000000 * Quantum

\* a fraction of 1 as a fraction of units
ToUnits(f) == LET g == FracNorm(f) IN <<g[1] * UnitsPerOne, g[2]>>

\* f"{x:.6f}" of a fraction of 1, in units
Format6(f) == Round6(ToUnits(f))

RECURSIVE CommonDen(_, _)
\* a common denominator of the first n fractions of values
CommonDen(values, n) ==
    IF n = 0 THEN 1
    ELSE LET d == CommonDen(values, n - 1)
         IN  (d \div Gcd(d, values[n][2])) * values[n][2]

\* smooth_center of a series of fractions of 1, as fractions of units
SmoothCenterOfOnes(values, window) ==
    LET d == CommonDen(values, Len(values))
        scaled == [j \in 1 .. Len(values) |-> values[j][1] * (d \div values[j][2])]
        smooth == SmoothCenter(scaled, window)
    IN  [j \in 1 .. Len(values) |-> ToUnits(<<smooth[j][1], smooth[j][2] * d>>)]

\* the rows of <stem>_redlog.csv
RedlogRows(smooth) ==
    [j \in 1 .. Len(times) |->
        [t_sec |-> times[j],
         red_ratio |-> Round6(FracOfInt(ratios[j])),
         delta |-> Round6(FracOfInt(deltas[j])),
         smooth_delta |-> Round6(smooth[j]),
         reader |-> reader_name]]

\* the rows of <stem>_bleedlog.csv
BleedlogRows(smooth) ==
    [j \in 1 .. Len(times) |->
        [t_sec |-> times[j],
         red_ratio |-> Format6(red_ratios[j]),
         newly_red_ratio |-> Format6(newly_red_ratios[j]),
         bg_stability |-> Format6(bg_stabilities[j]),
         red_expansion |-> Format6(red_expansions[j]),
         smooth |-> Round6(smooth[j]),
         reader |-> reader_name]]

\* the rows of <stem>_spreadlog.csv
SpreadlogRows(smooth) ==
    [j \in 1 .. Len(times) |->
        [t_sec |-> times[j],
         red_ratio |-> Format6(red_ratios[j]),
         max_cell_delta |-> Format6(max_cell_deltas[j]),
         delta_std |-> Format6(delta_stds[j]),
         spread_score |-> Format6(spread_scores[j]),
         smooth |-> Round6(smooth[j]),
         n_rising_cells |-> n_rising_cells_list[j],
         reader |-> reader_name]]

\* redlog.analyze_video after the loop: deltas were taken, now smooth_center
\* and the CSV
SmoothAndLog ==
    /\ pc = "smooth"
    /\ smooth_deltas' = SmoothCenter(deltas, WindowSize(smooth_s, fps_period))
    /\ csv' = Some(RedlogRows(smooth_deltas'))
    /\ pc' = "extract"
    /\ UNCHANGED <<sourceVars, configVars, jsonl, srt, times, deltas, i, in_event,
                   start_idx, events>>

\* record_timeseries of variants B and C after the loop: no sample returns {},
\* else the score is smoothed and the CSV written
RecordEnd ==
    /\ pc = "sampling"
    /\ variant \in {"B", "C"}
    /\ backend \in {"pyav", "opencv"}
    /\ pos = Len(video)
    /\ IF Len(times) = 0
       THEN pc' = "nodata" /\ UNCHANGED <<smooth_deltas, csv>>
       ELSE /\ pc' = "recorded"
            /\ smooth_deltas' =
                   SmoothCenterOfOnes(IF variant = "B" THEN red_expansions
                                      ELSE spread_scores,
                                      WindowSize(smooth_s, fps_period))
            /\ csv' = Some(IF variant = "B" THEN BleedlogRows(smooth_deltas')
                           ELSE SpreadlogRows(smooth_deltas'))
    /\ UNCHANGED <<sourceVars, configVars, jsonl, srt, times, deltas, i, in_event,
                   start_idx, events>>

\* fps = 1.0 / (times[1] - times[0]) with two rows or more, else 5.0, as a period
InferredPeriod(t) == IF Len(t) >= 2 THEN t[2] - t[1] ELSE DefaultPeriod

\* annotate_bleed of variants B and C reads the CSV back: the times, the
\* smoothed column and the inferred fps; two equal first times divide by zero
ReadCsv ==
    /\ pc = "recorded"
    /\ LET rows == Get(csv)
           t == [j \in 1 .. Len(rows) |-> rows[j].t_sec]
       IN  IF InferredPeriod(t) = 0
           THEN pc' = "raised" /\ UNCHANGED <<times, smooth_deltas, fps_period>>
           ELSE /\ pc' = "extract"
                /\ times' = t
                /\ smooth_deltas' =
                       [j \in 1 .. Len(rows) |-> FracOfInt(rows[j].smooth)]
                /\ fps_period' = InferredPeriod(t)
    /\ UNCHANGED <<sourceVars, thr, k_s, smooth_s, height, width, roi_margin, no_roi,
                   variant, bg_norm_factor, grid_size, fileVars, deltas, i, in_event,
                   start_idx, events>>

\* variant: the extractor's name is kept
MetricNameKept(ev) == ev.metric

\* the name annotate_bleed writes into ev["metric"]; redlog leaves the event alone
MetricName(ev) ==
    CASE variant = "A" -> ev.metric
      [] variant = "B" -> "red_expansion"
      [] variant = "C" -> "spread_score"

\* for ev in events: ev["metric"] = ...
Overwritten(evs) == [k \in 1 .. Len(evs) |-> [evs[k] EXCEPT !.metric = MetricName(evs[k])]]

\* one line of the JSONL file
JsonlLine(ev) ==
    [type |-> ev.type,
     metric |-> ev.metric,
     thr |-> ev.thr,
     k_s |-> ev.k_s,
     smooth_s |-> ev.smooth_s,
     delta_max |-> ev.delta_max,
     start_sec |-> ev.start,
     end_sec |-> ev.end]

RECURSIVE SortedByStart(_)
\* events.sort(key=start_sec) of read_events_jsonl: stable, by insertion
SortedByStart(lines) ==
    IF Len(lines) <= 1 THEN lines
    ELSE LET n == Len(lines)
             head == SortedByStart(SubSeq(lines, 1, n - 1))
             last == lines[n]
             k == Cardinality({j \in 1 .. n - 1 : head[j].start_sec <= last.start_sec})
         IN  SubSeq(head, 1, k) \o <<last>> \o SubSeq(head, k + 1, n - 1)

\* jsonl_to_srt.convert: one cue per line of type bleed_candidate, the time
\* line from start_sec and end_sec, the JSON line without the times
SrtCues(lines) ==
    LET kept == SelectSeq(SortedByStart(lines), LAMBDA l : l.type = "bleed_candidate")
    IN  [k \in 1 .. Len(kept) |->
            [index |-> k,
             start |-> kept[k].start_sec,
             end |-> kept[k].end_sec,
             meta |-> [f \in DOMAIN kept[k] \ {"start_sec", "end_sec"} |-> kept[k][f]]]]

\* the events are written: the JSONL file, then the SRT file made from it
WriteEvents ==
    /\ pc = "done"
    /\ events' = Overwritten(events)
    /\ jsonl' = Some([k \in 1 .. Len(events) |-> JsonlLine(events'[k])])
    /\ srt' = Some(SrtCues(Get(jsonl')))
    /\ pc' = "exported"
    /\ UNCHANGED <<sourceVars, configVars, csv, times, deltas, smooth_deltas, i,
                   in_event, start_idx>>

----------------------------------------------------------------------------
(* Specification of one session of analyze_video *)

\* a frame of 2 x 2 pixels: the pixels of reds are red, all of gray level gray
Frame22(reds, gray) ==
    [h |-> 2, w |-> 2,
     px |-> [p \in Pixels(2, 2) |-> [red |-> p \in reds, gray |-> gray]]]

\* the frames of the sessions of variants B and C: no red, the left column
\* red, all red and lighter
SessionFrames ==
    {Frame22({}, 0), Frame22({<<0, 0>>, <<1, 0>>}, 0), Frame22(Pixels(2, 2), 20)}

\* the decoded streams of a session of variant v
SessionVideos(v) ==
    UNION {[1 .. n -> IF v = "A" THEN Vals ELSE SessionFrames] : n \in 0 .. MaxFrames}

\* the step of thr in the sessions of variant v: variant A's ratios are a few
\* units, the scores of variants B and C fractions of 1
ThrStep(v) == IF v = "A" THEN 1 ELSE UnitsPerOne \div 4

\* thr in steps, k_s and smooth_s of the sessions
SessionSettings == {<<0, 0, 0>>, <<0, 3, 0>>, <<1, 0, 2>>}

\* variant, bg_norm_factor, grid_size and no_roi of the sessions
SessionEngines ==
    {<<"A", 0, 0, FALSE>>, <<"A", 0, 0, TRUE>>,
     <<"B", 10, 0, FALSE>>, <<"B", 30, 0, TRUE>>,
     <<"C", 0, 2, TRUE>>, <<"C", 0, 1, FALSE>>}

VideoOfLen(n) == [1 .. n -> Vals]

SessionDurations == {0, 3}

SessionSmooths == {0, 2}

\* frame sizes, margins (in units of 1/MarginDen) and ROI switches of the sessions
SessionRois ==
    {<<2, 2, 0, FALSE>>, <<2, 2, 0, TRUE>>, <<3, 2, 1, FALSE>>, <<2, 4, 4, FALSE>>,
     <<4, 4, 2, TRUE>>}

RoiSetting(hwmn) ==
    /\ height = hwmn[1]
    /\ width = hwmn[2]
    /\ roi_margin = hwmn[3]
    /\ no_roi = hwmn[4]

\* the locals of analyze_video before the sampling loop
Init ==
    /\ pc = "sampling"
    /\ NoProxy
    /\ \E n \in 0 .. MaxFrames : video \in VideoOfLen(n)
    /\ backend = "pyav"
    /\ pos = 0
    /\ next_t = 0
    /\ ratios = <<>>
    /\ reader_name = "opencv"
    /\ fps_period \in Periods
    /\ \/ /\ thr \in Vals
          /\ k_s \in SessionDurations
          /\ smooth_s \in SessionSmooths
          /\ RoiSetting(<<2, 2, 0, FALSE>>)
       \/ /\ thr = 0
          /\ k_s = 0
          /\ smooth_s = 0
          /\ \E hwmn \in SessionRois : RoiSetting(hwmn)
    /\ roi_mask = None
    /\ roi_initialized = FALSE
    /\ NoMetrics
    /\ NoFiles
    /\ times = <<>>
    /\ deltas = <<>>
    /\ smooth_deltas = <<>>
    /\ i = 0
    /\ in_event = FALSE
    /\ start_idx = 0
    /\ events = <<>>

\* the locals of analyze_video and of record_timeseries before the sampling
\* loop, in each of the three variants
InitSession ==
    /\ pc = "sampling"
    /\ NoProxy
    /\ backend = "pyav"
    /\ pos = 0
    /\ next_t = 0
    /\ ratios = <<>>
    /\ reader_name = "opencv"
    /\ fps_period \in Periods
    /\ height = 2
    /\ width = 2
    /\ roi_margin = 0
    /\ \E en \in SessionEngines :
          /\ variant = en[1]
          /\ bg_norm_factor = en[2]
          /\ grid_size = en[3]
          /\ no_roi = en[4]
          /\ video \in SessionVideos(en[1])
          /\ \E st \in SessionSettings :
                /\ thr = st[1] * ThrStep(en[1])
                /\ k_s = st[2]
                /\ smooth_s = st[3]
    /\ roi_mask = None
    /\ roi_initialized = FALSE
    /\ curr_bgr = None
    /\ prev_bgr = None
    /\ curr_cells = None
    /\ prev_cells = None
    /\ metrics = None
    /\ red_ratios = <<>>
    /\ newly_red_ratios = <<>>
    /\ bg_stabilities = <<>>
    /\ red_expansions = <<>>
    /\ max_cell_deltas = <<>>
    /\ delta_stds = <<>>
    /\ spread_scores = <<>>
    /\ n_rising_cells_list = <<>>
    /\ NoFiles
    /\ times = <<>>
    /\ deltas = <<>>
    /\ smooth_deltas = <<>>
    /\ i = 0
    /\ in_event = FALSE
    /\ start_idx = 0
    /\ events = <<>>

Next ==
    \/ PyavFrame
    \/ PyavRaise
    \/ OpencvFrame
    \/ OpencvOpenFails
    \/ EndOfFrames
    \/ SmoothAndLog
    \/ ExtractBegin
    \/ ScanStep
    \/ ScanEnd
    \/ WriteEvents

Spec == Init /\ [][Next]_vars

NextSession ==
    \/ PyavFrame
    \/ PyavRaise
    \/ OpencvFrame
    \/ OpencvOpenFails
    \/ EndOfFrames
    \/ SmoothAndLog
    \/ RecordEnd
    \/ ReadCsv
    \/ ExtractBegin
    \/ ScanStep
    \/ ScanEnd
    \/ WriteEvents

SpecSession == InitSession /\ [][NextSession]_vars

----------------------------------------------------------------------------
(* Specification of the second step of variant B on every bounded log: the *)
(* sampling loop of record_timeseries has ended with some timestamps and    *)
(* some red_expansion series, whatever the frames were                      *)

\* the frames of the video read
ReadBackFrames == MaxFrames + 1

\* timestamps of n samples PyAV can deliver at the period: each at least a
\* period after the one before (frames without pts are passed over)
SampledTimes(n, period) ==
    {t \in [1 .. n -> 0 .. ReadBackFrames - 1] :
        \A j \in 1 .. n - 1 : t[j + 1] >= t[j] + period}

\* red_expansion values a few units apart, as fractions of 1
ExpansionVals == {FracNorm(<<v, UnitsPerOne>>) : v \in 0 .. MaxVal * Quantum}

InitReadBack ==
    /\ pc = "sampling"
    /\ NoProxy
    /\ variant = "B"
    /\ backend = "pyav"
    /\ reader_name = "pyav"
    /\ video = [j \in 1 .. ReadBackFrames |-> Frame22({}, 0)]
    /\ pos = ReadBackFrames
    /\ fps_period \in Periods
    /\ thr \in {Quantum * v : v \in Vals}
    /\ k_s \in 0 .. MaxK
    /\ smooth_s \in {0, MaxSmooth}
    /\ \E n \in 1 .. MaxFrames :
          /\ times \in SampledTimes(n, fps_period)
          /\ next_t = times[n] + fps_period
          /\ red_expansions \in {s \in [1 .. n -> ExpansionVals] : s[1] = <<0, 1>>}
          /\ red_ratios = [j \in 1 .. n |-> <<0, 1>>]
          /\ newly_red_ratios = [j \in 1 .. n |-> <<0, 1>>]
          /\ bg_stabilities = [j \in 1 .. n |-> <<1, 1>>]
    /\ ratios = <<>>
    /\ height = 2
    /\ width = 2
    /\ roi_margin = 0
    /\ no_roi = TRUE
    /\ roi_mask = None
    /\ roi_initialized = TRUE
    /\ bg_norm_factor = 30
    /\ grid_size = 0
    /\ curr_bgr = Some(Frame22({}, 0))
    /\ prev_bgr = Some(Frame22({}, 0))
    /\ curr_cells = None
    /\ prev_cells = None
    /\ metrics = None
    /\ max_cell_deltas = <<>>
    /\ delta_stds = <<>>
    /\ spread_scores = <<>>
    /\ n_rising_cells_list = <<>>
    /\ NoFiles
    /\ deltas = <<>>
    /\ smooth_deltas = <<>>
    /\ i = 0
    /\ in_event = FALSE
    /\ start_idx = 0
    /\ events = <<>>

NextReadBack == RecordEnd \/ ReadCsv \/ ExtractBegin \/ ScanStep \/ ScanEnd

SpecReadBack == InitReadBack /\ [][NextReadBack]_vars

----------------------------------------------------------------------------

(* What the claims speak about, stated on the series itself *)

NSamples == Len(smooth_deltas)

\* s[j] > thr, for a 0-based index j
SampleAbove(j) == smooth_deltas[j + 1][1] > thr * smooth_deltas[j + 1][2]

\* s[j] = thr, for a 0-based index j
SampleAtThr(j) == smooth_deltas[j + 1][1] = thr * smooth_deltas[j + 1][2]

\* the maximal runs [lo, hi) of consecutive indices above thr
MaximalRuns ==
    {r \in (0 .. NSamples - 1) \X (1 .. NSamples) :
        /\ r[1] < r[2]
        /\ \A j \in r[1] .. r[2] - 1 : SampleAbove(j)
        /\ r[1] = 0 \/ ~SampleAbove(r[1] - 1)
        /\ r[2] = NSamples \/ ~SampleAbove(r[2])}

RunLen(r) == r[2] - r[1]

\* max(1, round(k_s * fps)), ties of round() to even
RequiredSamples ==
    LET q == k_s \div fps_period
        r == k_s % fps_period
        rounded == IF 2 * r < fps_period \/ (2 * r = fps_period /\ q % 2 = 0)
                   THEN q ELSE q + 1
    IN  IF rounded >= 1 THEN rounded ELSE 1

QualifyingRuns == {r \in MaximalRuns : RunLen(r) >= RequiredSamples}

\* the events recorded for the run r: same first and last timestamp
EventsOfRun(r) ==
    {e \in 1 .. Len(events) :
        events[e].start = times[r[1] + 1] /\ events[e].end = times[r[2]]}

\* max(1, round(smooth_s * fps)), the window the pipeline smooths with
UsedWindow ==
    LET w == PyRound(smooth_s, fps_period) IN IF w >= 1 THEN w ELSE 1

\* smooth_center has just returned
Smoothed == pc = "extract"

----------------------------------------------------------------------------
(* C1: when extract_bleed_events has returned, its events are exactly the   *)
(* maximal runs of samples above thr that are at least                      *)
(* max(1, round(k_s * fps)) samples long, one event per such run and no     *)
(* other event; a run that reaches the end of the series counts with n as   *)
(* its exclusive end.                                                       *)
C1_OneEventPerQualifyingRun ==
    pc = "done" =>
        LET Q == QualifyingRuns
        IN  /\ Len(events) = Cardinality(Q)
            /\ \A r \in Q : Cardinality(EventsOfRun(r)) = 1
            /\ \A e \in 1 .. Len(events) : \E r \in Q : e \in EventsOfRun(r)

\* a short run was dropped and a run open at the end of the scan was emitted
C1_Witness ==
    /\ pc = "done"
    /\ \E r \in MaximalRuns : RunLen(r) < RequiredSamples
    /\ \E r \in QualifyingRuns : r[2] = NSamples /\ EventsOfRun(r) # {}

(* C2: a maximal run of exactly min_samples - 1 samples leaves no event,    *)
(* a maximal run of exactly min_samples samples leaves exactly one.         *)
C2_BoundaryRunLength ==
    pc = "done" =>
        \A r \in MaximalRuns :
            /\ RunLen(r) = RequiredSamples - 1 => EventsOfRun(r) = {}
            /\ RunLen(r) = RequiredSamples => Cardinality(EventsOfRun(r)) = 1

\* both boundary lengths occur in one series, with min_samples >= 2
C2_Witness ==
    /\ pc = "done"
    /\ RequiredSamples >= 2
    /\ \E r \in MaximalRuns : RunLen(r) = RequiredSamples - 1
    /\ \E r \in MaximalRuns : RunLen(r) = RequiredSamples /\ EventsOfRun(r) # {}

(* C3: a sample equal to thr is outside: the scan step that reads it        *)
(* leaves the scan OUTSIDE (no entry, and an open run ends), and no sample  *)
(* equal to thr lies between the start and the end of an event.             *)
C3_EqualToThrIsOutside ==
    /\ [][(pc = "scan" /\ i < NSamples /\ SampleAtThr(i)) => ~in_event']_vars
    /\ [](\A e \in 1 .. Len(events) : \A j \in 0 .. NSamples - 1 :
             (events[e].start <= times[j + 1] /\ times[j + 1] <= events[e].end)
                 => ~SampleAtThr(j))

\* a sample equal to thr closed the run of an emitted event
C3_Witness ==
    /\ pc = "done"
    /\ \E e \in 1 .. Len(events) : \E j \in 1 .. NSamples - 1 :
          SampleAtThr(j) /\ times[j] = events[e].end

\* the largest value of s over the 0-based indices lo .. hi - 1
PeakOf(lo, hi) ==
    CHOOSE m \in {smooth_deltas[j + 1] : j \in lo .. hi - 1} :
        \A j \in lo .. hi - 1 :
            smooth_deltas[j + 1][1] * m[2] <= m[1] * smooth_deltas[j + 1][2]

\* v (units) is a multiple of 10^-6 nearest to the fraction x
NearestMicro(v, x) ==
    /\ v % Quantum = 0
    /\ 2 * (v * x[2] - x[1]) <= Quantum * x[2]
    /\ 2 * (x[1] - v * x[2]) <= Quantum * x[2]

\* the step appends an event; i is the exclusive end of its run
Emits == Len(events') = Len(events) + 1

Emitted == events'[Len(events')]

(* C4 as claimed: the event emitted for the run [start_idx, end_idx) has    *)
(* delta_max equal to the maximum of s over the run.                        *)
C4_PeakIsExactMax ==
    [][Emits => Emitted.delta_max * PeakOf(start_idx, i)[2] = PeakOf(start_idx, i)[1]]_vars

(* C4, amended: the event emitted for the run [start_idx, end_idx) carries  *)
(* start = t[start_idx], end = t[end_idx - 1], the thr, k_s and smooth_s of *)
(* the call, and delta_max = the maximum of s over the run rounded to six   *)
(* decimal places.                                                          *)
C4_EventFields ==
    [][Emits =>
          /\ Emitted.start = times[start_idx + 1]
          /\ Emitted.end = times[i]
          /\ Emitted.thr = thr
          /\ Emitted.k_s = k_s
          /\ Emitted.smooth_s = smooth_s
          /\ NearestMicro(Emitted.delta_max, PeakOf(start_idx, i))]_vars

\* an event of a run of several unequal samples whose maximum is off the 10^-6 grid
C4_Witness ==
    /\ pc = "done"
    /\ \E r \in QualifyingRuns :
          /\ RunLen(r) >= 2
          /\ EventsOfRun(r) # {}
          /\ ~FracEq(smooth_deltas[r[1] + 1], PeakOf(r[1], r[2]))
          /\ PeakOf(r[1], r[2])[1] % (Quantum * PeakOf(r[1], r[2])[2]) # 0

(* C5 as claimed: every event's delta_max is strictly greater than its thr. *)
C5_PeakAboveThr ==
    \A e \in 1 .. Len(events) : events[e].delta_max > events[e].thr

(* C5, amended: the maximum of s over every event's run is strictly greater *)
(* than thr, and the recorded delta_max, that maximum rounded to six        *)
(* decimal places, is at least thr rounded to six decimal places.           *)
C5_RoundedPeakAtLeastThr ==
    pc = "done" =>
        LET Q == QualifyingRuns
        IN  /\ \A e \in 1 .. Len(events) :
                  events[e].delta_max >= Quantum * PyRound(events[e].thr, Quantum)
            /\ \A r \in Q : PeakOf(r[1], r[2])[1] > thr * PeakOf(r[1], r[2])[2]
            /\ \A e \in 1 .. Len(events) : \E r \in Q : e \in EventsOfRun(r)

\* an event whose recorded peak is not above thr although its run is
C5_Witness ==
    /\ pc = "done"
    /\ \E e \in 1 .. Len(events) : events[e].delta_max <= events[e].thr

(* C6 as claimed: with timestamps spaced 1/fps, every event has             *)
(* end - start >= k_s.                                                      *)
C6_DurationAtLeastKs ==
    \A e \in 1 .. Len(events) : events[e].end - events[e].start >= events[e].k_s

(* C6, amended: every event covers at least min_samples consecutive samples *)
(* above thr, so with timestamps spaced 1/fps it has                        *)
(* end - start >= (min_samples - 1) / fps.                                  *)
C6_DurationAtLeastMinSamples ==
    \A e \in 1 .. Len(events) :
        /\ events[e].end - events[e].start >= (RequiredSamples - 1) * fps_period
        /\ \A j \in 0 .. NSamples - 1 :
              (events[e].start <= times[j + 1] /\ times[j + 1] <= events[e].end)
                  => SampleAbove(j)

\* an event of exactly min_samples >= 2 samples, shorter than k_s
C6_Witness ==
    /\ pc = "done"
    /\ RequiredSamples >= 2
    /\ \E e \in 1 .. Len(events) :
          /\ events[e].end - events[e].start = (RequiredSamples - 1) * fps_period
          /\ events[e].end - events[e].start < k_s

\* the raw series is constant at a value below thr
ConstantBelowThr ==
    /\ Len(deltas) >= 1
    /\ \A j \in 1 .. Len(deltas) : deltas[j] = deltas[1]
    /\ deltas[1] < thr

C8_SmoothKeepsLength ==
    Smoothed =>
        /\ Len(smooth_deltas) = Len(deltas)
        /\ UsedWindow = 1 =>
              \A j \in 1 .. Len(deltas) :
                  smooth_deltas[j][1] = deltas[j] * smooth_deltas[j][2]

\* a window wider than 1 changed a value of a series that kept its length
C8_Witness ==
    /\ pc = "extract"
    /\ UsedWindow >= 2
    /\ Len(deltas) >= 3
    /\ Len(smooth_deltas) = Len(deltas)
    /\ \E j \in 1 .. Len(deltas) : smooth_deltas[j][1] # deltas[j] * smooth_deltas[j][2]

\* the centered window of the 0-based index idx, cut at both ends: first index
\* and exclusive end
WindowFirst(idx) ==
    IF idx - (UsedWindow \div 2) >= 0 THEN idx - (UsedWindow \div 2) ELSE 0

WindowEnd(idx) ==
    IF idx + (UsedWindow \div 2) + 1 <= Len(deltas)
    THEN idx + (UsedWindow \div 2) + 1 ELSE Len(deltas)

RECURSIVE InputSum(_, _)
\* the sum of the input over the 0-based indices from .. to - 1
InputSum(from, to) ==
    IF from >= to THEN 0 ELSE deltas[to] + InputSum(from, to - 1)

(* C9: output[i] of smooth_center is the arithmetic mean of the input over  *)
(* the indices max(0, i - W div 2) .. min(n, i + W div 2 + 1) - 1.          *)
C9_SmoothIsCenteredMean ==
    Smoothed =>
        /\ DOMAIN smooth_deltas = 1 .. Len(deltas)
        /\ \A idx \in 0 .. Len(deltas) - 1 :
              smooth_deltas[idx + 1][1] * (WindowEnd(idx) - WindowFirst(idx))
                  = InputSum(WindowFirst(idx), WindowEnd(idx)) * smooth_deltas[idx + 1][2]

\* a window of half-width 1 over 4 unequal samples: cut at the ends, full inside
C9_Witness ==
    /\ pc = "extract"
    /\ UsedWindow \div 2 = 1
    /\ Len(deltas) = 4
    /\ deltas[1] # deltas[2] /\ deltas[3] # deltas[4]
    /\ smooth_deltas[1][2] = 2 /\ smooth_deltas[2][2] = 3

\* the source frames _iter_frames_opencv samples when it runs from the beginning
FallbackFrames ==
    {j \in 0 .. Len(video) - 1 :
        j % (IF fps_period >= 1 THEN fps_period ELSE 1) = 0}

SamplingOver == pc \in {"nodata", "smooth", "extract", "scan", "done"}

(* C10: when iter_frames has fallen back to OpenCV, the series the sampling *)
(* loop has accumulated holds only the fallback's frames, also when PyAV    *)
(* had delivered frames before it raised.                                   *)
C10_FallbackDiscardsEarlierFrames ==
    (SamplingOver /\ backend = "opencv") =>
        /\ Len(times) = Cardinality(FallbackFrames)
        /\ \A k \in 1 .. Len(times) : times[k] \in FallbackFrames

(* C11: within one session the timestamps the sampling loop has appended to *)
(* the series are non-decreasing, also when the fallback backend takes      *)
(* over (each backend on its own delivers non-decreasing timestamps).       *)
C11_TimesNonDecreasing ==
    \A k \in 1 .. Len(times) - 1 : times[k] <= times[k + 1]

(* C13: for every frame size and every margin >= 0.5 the mask returned by   *)
(* make_circular_roi is empty, and the red ratio computed with it, also of  *)
(* a frame that is red all over, is 0.                                      *)
C13_DegenerateMarginEmptyMask ==
    (pc = "roi_done" /\ 2 * roi_margin >= MarginDen) =>
        /\ Get(roi_mask) = {}
        /\ ComputeRedRatio(AllRed(height, width), roi_mask) = <<0, 1>>

\* a fraction num / den with den > 0 and 0 <= num <= den
InUnitRange(x) == x[2] > 0 /\ 0 <= x[1] /\ x[1] <= x[2]

\* the engine called had no pixel to count
ZeroTotal == TotalPixels(Get(curr_bgr), roi_mask) = 0

(* C14: when the total pixel count is zero no metric engine divides by zero: *)
(* compute_red_ratio returns 0, compute_red_expansion returns red_ratio 0,  *)
(* newly_red_ratio 0, bg_stability 1 and red_expansion 0, and               *)
(* compute_cell_ratios returns 0 for a cell without ROI pixels; no value    *)
(* returned has a zero denominator.                                         *)
C14_ZeroTotalDefaults ==
    /\ (pc = "ratio_done" /\ ZeroTotal) => Get(metrics).red_ratio = <<0, 1>>
    /\ (pc = "expansion_done" /\ ZeroTotal) =>
           /\ Get(metrics).red_ratio = <<0, 1>>
           /\ Get(metrics).newly_red_ratio = <<0, 1>>
           /\ Get(metrics).bg_stability = <<1, 1>>
           /\ Get(metrics).red_expansion = <<0, 1>>
    /\ pc = "expansion_done" =>
           /\ Get(metrics).red_ratio[2] > 0
           /\ Get(metrics).newly_red_ratio[2] > 0
           /\ Get(metrics).bg_stability[2] > 0
           /\ Get(metrics).red_expansion[2] > 0
    /\ pc = "cells_done" =>
           \A cell \in Cells(grid_size) :
               /\ Get(curr_cells)[cell][2] > 0
               /\ CellTotal(Get(curr_bgr), grid_size, roi_mask, cell) = 0
                      => Get(curr_cells)[cell] = <<0, 1>>

\* compute_red_expansion met an empty ROI on a frame with newly red pixels
C14_Witness ==
    /\ pc = "expansion_done"
    /\ roi_mask = Some({})
    /\ RedMask(Get(curr_bgr)) \ RedMask(Get(prev_bgr)) # {}
    /\ Get(metrics).bg_stability = <<1, 1>>

(* C15: for every frame pair, every ROI and every positive bg_norm_factor,  *)
(* compute_red_expansion returns newly_red_ratio, bg_stability and          *)
(* red_expansion in [0, 1] with red_expansion = newly_red_ratio x           *)
(* bg_stability, and bg_stability = 1 when no ROI pixel is non-red in both  *)
(* frames.                                                                  *)
C15_ExpansionInUnitRange ==
    pc = "expansion_done" =>
        /\ InUnitRange(Get(metrics).newly_red_ratio)
        /\ InUnitRange(Get(metrics).bg_stability)
        /\ InUnitRange(Get(metrics).red_expansion)
        /\ FracEq(Get(metrics).red_expansion,
                  FracMul(Get(metrics).newly_red_ratio, Get(metrics).bg_stability))
        /\ NonRed(Get(prev_bgr), Get(curr_bgr), roi_mask) = {}
               => FracEq(Get(metrics).bg_stability, <<1, 1>>)

\* new red under a background that moved less than bg_norm_factor: a score
\* strictly between 0 and the newly red ratio
C15_Witness ==
    /\ pc = "expansion_done"
    /\ Get(metrics).red_expansion[1] > 0
    /\ FracGt(Get(metrics).newly_red_ratio, Get(metrics).red_expansion)
    /\ FracGt(<<1, 1>>, Get(metrics).newly_red_ratio)

\* every cell of the grid changed by the same amount
UniformChange ==
    \A c \in Cells(grid_size) :
        FracEq(CellDelta(Get(prev_cells), Get(curr_cells), c),
               CellDelta(Get(prev_cells), Get(curr_cells), <<0, 0>>))

ConcentratedChange ==
    /\ \E c \in Cells(grid_size) :
           CellDelta(Get(prev_cells), Get(curr_cells), c)[1] # 0
    /\ \E c \in Cells(grid_size) :
           CellDelta(Get(prev_cells), Get(curr_cells), c)[1] = 0

\* the ratio of at least one cell went up
SomeCellRises ==
    \E c \in Cells(grid_size) :
        CellDelta(Get(prev_cells), Get(curr_cells), c)[1] > 0

\* the grid in which every cell of prev_cells changed by the mean change
UniformOfSameAggregate ==
    LET n == grid_size * grid_size
        sum == SumDeltas(Get(prev_cells), Get(curr_cells), grid_size, n)
    IN  [c \in Cells(grid_size) |-> FracAdd(Get(prev_cells)[c], <<sum[1], sum[2] * n>>)]

\* spread_score ** 2 of that uniform change of the same previous grid
UniformScoreSq ==
    SpreadScoreSq(ComputeSpreadScore(Get(prev_cells), UniformOfSameAggregate, grid_size))

----------------------------------------------------------------------------
(* The session as a whole *)

\* a record_timeseries or analyze_video that got no sample has not gone on
NothingRun ==
    /\ pc \in {"sampling", "nodata", "raised"}
    /\ NoFiles
    /\ deltas = <<>>
    /\ smooth_deltas = <<>>
    /\ events = <<>>

(* C12: when the frame source ends without having yielded a frame, the      *)
(* pipeline of each variant returns the empty result: no CSV, JSONL or SRT  *)
(* file is written, and smoothing, event extraction and the annotate step   *)
(* are never run; the only exception that can leave a pipeline without a    *)
(* sample is the frame source's own failure to open the file.               *)
C12_NoFramesReturnsEmpty ==
    Len(times) = 0 =>
        /\ NothingRun
        /\ pc = "raised" => backend = "opencv" /\ pos = 0
        /\ pc = "nodata" => pos = Len(video)

\* variant C got a stream of frames none of which became a sample
C12_Witness ==
    /\ pc = "nodata"
    /\ variant = "C"
    /\ Len(video) > 0
    /\ Len(times) = 0

\* the source frame of the session's first sample
FirstSampled == video[times[1] + 1]

(* C16: the first sample of a session has the no-predecessor defaults: in   *)
(* variant A delta[0] = 0 and delta[i] = ratio[i] - ratio[i-1] for i >= 1;  *)
(* in variant B the first sample has newly_red_ratio = 0, bg_stability = 1, *)
(* red_expansion = 0 and the red ratio of the first frame itself.           *)
C16_FirstSampleDefaults ==
    /\ (variant = "A" /\ pc \in {"smooth", "extract", "scan", "done", "exported"}) =>
           /\ Len(deltas) = Len(ratios)
           /\ deltas[1] = 0
           /\ \A j \in 2 .. Len(ratios) : deltas[j] = ratios[j] - ratios[j - 1]
    /\ (variant = "B" /\ Len(times) >= 1) =>
           /\ newly_red_ratios[1] = <<0, 1>>
           /\ bg_stabilities[1] = <<1, 1>>
           /\ red_expansions[1] = <<0, 1>>
           /\ FracEq(red_ratios[1], ComputeRedRatio(FirstSampled, roi_mask))

\* variant B: a first sample with red in it, and a later one that expanded
C16_Witness ==
    /\ variant = "B"
    /\ Len(times) >= 2
    /\ red_ratios[1][1] > 0
    /\ red_expansions[2][1] > 0
    /\ red_expansions[1] = <<0, 1>>

\* the ROI of the session once a frame has been seen
SessionRoi ==
    IF no_roi THEN None ELSE Some(MakeCircularRoi(height, width, roi_margin))

(* C19: the ROI mask is absent until the first frame arrives, is then made  *)
(* from that frame's height and width and the margin, and is never changed  *)
(* by a later frame; with no_roi set it stays absent for the whole session. *)
C19_RoiStep ==
    /\ roi_initialized => roi_mask' = roi_mask /\ roi_initialized'
    /\ (~roi_initialized /\ roi_initialized') =>
           /\ Len(times) = 0
           /\ Len(times') = 1
           /\ roi_mask' = SessionRoi
    /\ ~roi_initialized' => roi_mask' = None /\ Len(times') = 0
    /\ no_roi => roi_mask' = None

C19_RoiComputedOnce == [][C19_RoiStep]_vars

\* variant C: a mask made on the first frame is in use on the third sample,
\* taken by the second backend
C19_Witness ==
    /\ variant = "C"
    /\ backend = "opencv"
    /\ Len(times) >= 3
    /\ roi_initialized
    /\ roi_mask # None
    /\ Get(roi_mask) # {}

\* the fields of a JSONL line, the name of the metric apart, are the event's
SameButMetric(line, ev) ==
    /\ line.type = ev.type
    /\ line.thr = ev.thr
    /\ line.k_s = ev.k_s
    /\ line.smooth_s = ev.smooth_s
    /\ line.delta_max = ev.delta_max
    /\ line.start_sec = ev.start
    /\ line.end_sec = ev.end

\* the step that writes the JSONL file
Exporting == pc = "done" /\ pc' = "exported"

(* C20 as claimed: every field of an event written to the JSONL export has  *)
(* the value the extractor gave it, in all three variants.                  *)
C20_ExportedAsExtracted ==
    [][Exporting =>
          /\ Len(Get(jsonl')) = Len(events)
          /\ \A k \in 1 .. Len(events) :
                 /\ SameButMetric(Get(jsonl')[k], events[k])
                 /\ Get(jsonl')[k].metric = events[k].metric]_vars

(* C20, amended: events are created by the extractor only, and every field  *)
(* of an event written to the JSONL export has the value the extractor gave *)
(* it, except metric in variants B and C, where annotate_bleed replaces the *)
(* extractor's "red_ratio" by "red_expansion" or "spread_score".            *)
C20_ExportedAsExtractedButMetric ==
    [][/\ Len(events') # Len(events) => pc \in {"extract", "scan"}
       /\ Exporting =>
              /\ Len(Get(jsonl')) = Len(events)
              /\ \A k \in 1 .. Len(events) :
                     /\ SameButMetric(Get(jsonl')[k], events[k])
                     /\ events[k].metric = "red_ratio"
                     /\ Get(jsonl')[k].metric =
                            CASE variant = "A" -> "red_ratio"
                              [] variant = "B" -> "red_expansion"
                              [] variant = "C" -> "spread_score"]_vars

\* variant C has exported an event
C20_Witness ==
    /\ pc = "exported"
    /\ variant = "C"
    /\ Len(Get(jsonl)) >= 1
    /\ Get(jsonl)[1].metric = "spread_score"

----------------------------------------------------------------------------
(* The scan, again *)

\* the number of samples above thr
SamplesAbove == Cardinality({j \in 0 .. NSamples - 1 : SampleAbove(j)})

(* C23: one threshold serves for entry and exit, so a single sample <= thr  *)
(* ends the run before it and the samples after it start a new run; each    *)
(* run is judged alone: when every run is shorter than min_samples no event *)
(* is emitted, however many samples are above thr in total.                 *)
C23_ShortRunsGiveNoEvent ==
    /\ [][(pc = "scan" /\ i < NSamples /\ ~SampleAbove(i)) => ~in_event']_vars
    /\ [](pc = "done" =>
             ((\A r \in MaximalRuns : RunLen(r) < RequiredSamples) => events = <<>>))

\* two runs one sample apart, each too short, together long enough
C23_Witness ==
    /\ pc = "done"
    /\ events = <<>>
    /\ SamplesAbove >= RequiredSamples
    /\ \E r1, r2 \in MaximalRuns : r2[1] = r1[2] + 1

\* 0-based index of the sample taken at time t, the series being uniform
IndexAt(t) == t \div fps_period

(* C26: the events are in scan order and pairwise disjoint: the run of an   *)
(* event starts at least two indices after the last index of the event      *)
(* before it, a sample <= thr lies between the two, and so the end of an    *)
(* event is not later than the start of the next.                           *)
C26_EventsOrderedDisjoint ==
    \A e \in 1 .. Len(events) - 1 :
        /\ IndexAt(events[e + 1].start) >= IndexAt(events[e].end) + 2
        /\ \E j \in IndexAt(events[e].end) + 1 .. IndexAt(events[e + 1].start) - 1 :
               ~SampleAbove(j)
        /\ events[e].end <= events[e + 1].start

\* two events with a single sample between them
C26_Witness ==
    /\ pc = "done"
    /\ Len(events) >= 2
    /\ IndexAt(events[2].start) = IndexAt(events[1].end) + 2

----------------------------------------------------------------------------
(* smooth_center, again *)

\* the window smooth_center was called with
CalledWindow == WindowSize(smooth_s, fps_period)

(* C27: smooth_center averages 2 * floor(W / 2) + 1 samples at an interior  *)
(* index, so the output for the even window W = 2k, k >= 1, is the output   *)
(* for W = 2k + 1, and no output value lies outside [min(input),            *)
(* max(input)].                                                             *)
C27_EvenAsOddAndInRange ==
    pc = "float_done" =>
        /\ (CalledWindow >= 2 /\ CalledWindow % 2 = 0) =>
               SmoothCenterFloat(deltas, CalledWindow)
                   = SmoothCenterFloat(deltas, CalledWindow + 1)
        /\ \A j \in 1 .. Len(deltas) :
               /\ \E m \in 1 .. Len(deltas) : deltas[m] <= smooth_deltas[j][1]
               /\ \E m \in 1 .. Len(deltas) : smooth_deltas[j][1] <= deltas[m]

----------------------------------------------------------------------------
(* The sampling loops of the expansion and spread variants *)

\* the source frame of the j-th sample, j from 1
SampledFrame(j) == video[times[j] + 1]

(* C24: in the sampling loops of variants B and C the pair metrics of a     *)
(* sample after the first are those of the frame of the sample before it    *)
(* and its own frame (of their cell grids in variant C), and what is kept   *)
(* from one iteration to the next is the frame (the grid) just processed.   *)
(* Stated of every step that takes a sample.                                *)
C24_SampleStep ==
    (pc = "sampling" /\ variant \in {"B", "C"} /\ Len(times') = Len(times) + 1) =>
        LET n == Len(times')
            frame == video[times'[n] + 1]
        IN  /\ curr_bgr' = Some(frame)
            /\ variant = "B" =>
                   /\ prev_bgr' = Some(frame)
                   /\ n >= 2 =>
                          /\ prev_bgr = Some(SampledFrame(n - 1))
                          /\ \E m \in {ComputeRedExpansion(SampledFrame(n - 1), frame,
                                                          roi_mask', bg_norm_factor)} :
                                 /\ red_ratios'[n] = m.red_ratio
                                 /\ newly_red_ratios'[n] = m.newly_red_ratio
                                 /\ bg_stabilities'[n] = m.bg_stability
                                 /\ red_expansions'[n] = m.red_expansion
            /\ variant = "C" =>
                   \E cells \in {ComputeCellRatios(frame, grid_size, roi_mask')} :
                       /\ curr_cells' = Some(cells)
                       /\ prev_cells' = Some(cells)
                       /\ n >= 2 =>
                              /\ prev_cells = curr_cells
                              /\ curr_bgr = Some(SampledFrame(n - 1))
                              /\ \E m \in {SpreadMetrics(Get(prev_cells), cells,
                                                         grid_size)} :
                                     /\ max_cell_deltas'[n] = m.max_cell_delta
                                     /\ delta_stds'[n] = m.delta_std
                                     /\ spread_scores'[n] = m.spread_score
                                     /\ n_rising_cells_list'[n] = m.n_rising_cells

C24_PairIsPreviousAndCurrent == [][C24_SampleStep]_vars

\* variant B: the third sample expanded over the second, not over the first
C24_Witness ==
    /\ pc = "sampling"
    /\ variant = "B"
    /\ Len(times) >= 3
    /\ SampledFrame(1) = SampledFrame(3)
    /\ SampledFrame(2) # SampledFrame(3)
    /\ red_expansions[3][1] > 0

----------------------------------------------------------------------------
(* The lengths of the series of a session *)

\* the sampling loop is over
LoopOver == pc \in {"smooth", "recorded", "extract", "scan", "done", "exported"}

\* the smoothed series exists
SmoothedSeriesExists == pc \in {"recorded", "extract", "scan", "done", "exported"}

\* the series the sampling loop of the variant in hand appends to
LoopSeries ==
    CASE variant = "A" -> <<ratios>>
      [] variant = "B" -> <<red_ratios, newly_red_ratios, bg_stabilities, red_expansions>>
      [] variant = "C" -> <<red_ratios, max_cell_deltas, delta_stds, spread_scores,
                            n_rising_cells_list>>

(* C25: at every moment the timestamp list and every metric series of the   *)
(* session have one length, the number of frames delivered so far; the      *)
(* series of differences, the smoothed series and the rows of the CSV have  *)
(* that length too, and smoothing and extraction run only once the frame    *)
(* source is exhausted.                                                     *)
C25_SeriesSameLength ==
    /\ [][\/ /\ Len(times') = Len(times) + 1
             /\ \A s \in DOMAIN LoopSeries' : Len(LoopSeries'[s]) = Len(times')
          \/ /\ Len(times') = Len(times)
             /\ LoopSeries' = LoopSeries]_vars
    /\ [](/\ \A s \in DOMAIN LoopSeries : Len(LoopSeries[s]) = Len(times)
          /\ LoopOver => /\ pos = Len(video)
                         /\ Len(times) >= 1
                         /\ variant = "A" => Len(deltas) = Len(times)
          /\ pc = "sampling" => (smooth_deltas = <<>> /\ csv = None /\ events = <<>>)
          /\ SmoothedSeriesExists => /\ Len(smooth_deltas) = Len(times)
                         /\ csv # None
                         /\ Len(Get(csv)) = Len(times))

\* three frames were delivered and the CSV has three rows
C25_Witness ==
    /\ pc = "extract"
    /\ Len(times) = 3
    /\ Len(smooth_deltas) = 3
    /\ Len(Get(csv)) = 3

----------------------------------------------------------------------------
(* Reading the log back *)

\* the t_sec column of the CSV written
CsvTimes == [j \in 1 .. Len(Get(csv)) |-> Get(csv)[j].t_sec]

\* the timestamps never go back
NonDecreasing(t) == \A j \in 1 .. Len(t) - 1 : t[j] <= t[j + 1]

\* annotate_bleed has read the CSV of variant B or C
CsvRead ==
    /\ variant \in {"B", "C"}
    /\ csv # None
    /\ pc \in {"raised", "extract", "scan", "done", "exported"}

(* C29: when the timestamps of the log CSV of variant B or C are            *)
(* non-decreasing, reading it back does not raise and yields a positive     *)
(* sampling period: the gap of the first two timestamps when there are two  *)
(* rows, the period of 5.0 fps otherwise; the extractor's min_samples is    *)
(* then at least 1.                                                         *)
C29_ReadCsvCompletes ==
    (CsvRead /\ NonDecreasing(CsvTimes)) =>
        /\ pc # "raised"
        /\ fps_period > 0
        /\ fps_period = IF Len(CsvTimes) >= 2 THEN CsvTimes[2] - CsvTimes[1]
                        ELSE DefaultPeriod
        /\ MinSamples(k_s, fps_period) >= 1

\* the maximal runs [lo, hi) of the samples of sm above th that are at least
\* need samples long: the runs extract_bleed_events turns into events (C1)
RunsOf(sm, th, need) ==
    {r \in (0 .. Len(sm) - 1) \X (1 .. Len(sm)) :
        /\ r[1] < r[2]
        /\ r[2] - r[1] >= need
        /\ \A j \in r[1] .. r[2] - 1 : Above(sm, j, th)
        /\ r[1] = 0 \/ ~Above(sm, r[1] - 1, th)
        /\ r[2] = Len(sm) \/ ~Above(sm, r[2], th)}

\* the runs of the series and the period in hand
RunsInHand == RunsOf(smooth_deltas, thr, MinSamples(k_s, fps_period))

\* the first and last sample of every event, from the timestamps
EventSamples == {<<events[e].start, events[e].end>> : e \in 1 .. Len(events)}

(* C28: in variants B and C the events of the two steps (the CSV written,   *)
(* read back, the fps inferred from its first two timestamps) are those     *)
(* extract_bleed_events gives on the smoothed series in memory with the     *)
(* configured fps: reading the CSV back does not raise and leaves the runs  *)
(* that become events as they were, and the events extracted are these      *)
(* runs, by number and by first and last sample.                            *)
C28_TwoStepsAsDirect ==
    /\ [][pc = "recorded" =>
              /\ pc' = "extract"
              /\ RunsInHand' = RunsInHand]_vars
    /\ []((pc = "done" /\ variant \in {"B", "C"}) =>
              /\ Len(events) = Cardinality(RunsInHand)
              /\ EventSamples = {<<times[r[1] + 1], times[r[2]]>> : r \in RunsInHand})

----------------------------------------------------------------------------
(* The converters of src/tools: jsonl_to_srt and srt_to_jsonl.  Here a time *)
(* in seconds is an integer number of steps of 1/TimeSub ms.  A time text   *)
(* is the tuple of the numbers printed in it: <<h, m, s, ms>> for           *)
(* HH:MM:SS,mmm, a tuple of another length for a text of another shape.     *)
(* An SRT file is a sequence of blocks, a block the sequence of its lines:  *)
(* the index, the time range (arrow tells whether the line has a "-->",     *)
(* start and end are the time texts around it), the word in the brackets    *)
(* of the tag line, and the JSON line (json tells whether json.loads        *)
(* parses it, dict is the dictionary it holds, a function of its keys).     *)
(* An event of a JSONL file is the function of its keys.                    *)

MaxEvents == 2
MaxBlocks == 3
TimeSub == 2

\* n milliseconds
Ms(n) == n * TimeSub

\* format_srt_time: h, m, s of the whole seconds, ms = round of the rest, 999
\* when that is 1000
FormatSrtTime(seconds) ==
    LET sec == IF seconds < 0 THEN 0 ELSE seconds
        whole == sec \div Ms(1000)
        ms == PyRound(sec % Ms(1000), TimeSub)
    IN  <<whole \div 3600, (whole % 3600) \div 60, whole % 60,
          IF ms >= 1000 THEN 999 ELSE ms>>

\* the text matches (\d{1,2}):(\d{2}):(\d{2})[,.](\d{3}); f"{h:02d}" prints
\* three digits from 100 hours on
MatchesSrtTime(text) ==
    /\ Len(text) = 4
    /\ text[1] <= 99 /\ text[2] <= 99 /\ text[3] <= 99 /\ text[4] <= 999

\* parse_srt_time: the seconds of a matching text, None for ValueError
ParseSrtTime(text) ==
    IF MatchesSrtTime(text)
    THEN Some(Ms(text[1] * 3600000 + text[2] * 60000 + text[3] * 1000 + text[4]))
    ELSE None

\* the keys _build_json_line leaves out
TimeKeys == {"start_sec", "end_sec", "start_srt", "end_srt", "t_sec"}

\* _build_tag_line, by the word in the brackets: TAG_TEMPLATES, else the type
BuildTagLine(ev) ==
    CASE ev["type"] = "bleed_candidate" -> "bleed"
      [] ev["type"] = "cut" -> "cut"
      [] OTHER -> ev["type"]

\* _build_json_line: the event without its time keys
BuildJsonLine(ev) == [f \in DOMAIN ev \ TimeKeys |-> ev[f]]

\* events_to_srt without a type filter: one block of four lines per event
EventsToSrt(evs) ==
    [k \in 1 .. Len(evs) |->
        <<k,
          [arrow |-> TRUE,
           start |-> FormatSrtTime(evs[k]["start_sec"]),
           end |-> FormatSrtTime(evs[k]["end_sec"])],
          BuildTagLine(evs[k]),
          [json |-> TRUE, dict |-> BuildJsonLine(evs[k])]>>]

\* _parse_tag_line: TAG_PATTERNS, None for any other tag
ParseTagLine(tag) ==
    CASE tag = "bleed" -> Some("bleed_candidate")
      [] tag = "cut" -> Some("cut")
      [] OTHER -> None

\* a line that json.loads does not parse
BrokenJson(line) == ~line.json

\* variant: a block with a broken JSON line is passed over as well
SkippedOrBroken(block) ==
    \/ Len(block) < 3
    \/ ~block[2].arrow
    \/ ParseSrtTime(block[2].start) = None
    \/ ParseSrtTime(block[2].end) = None
    \/ (Len(block) >= 4 /\ BrokenJson(block[4]))

\* a block read_srt_to_events passes over: fewer than three lines, no "-->"
\* in the second, or a time that parse_srt_time rejects
Skipped(block) ==
    \/ Len(block) < 3
    \/ ~block[2].arrow
    \/ ParseSrtTime(block[2].start) = None
    \/ ParseSrtTime(block[2].end) = None

\* the event of a block that is not passed over: the metadata, the type of a
\* known tag over it, the times of the time line over both
EventOfBlock(block) ==
    LET start_sec == Get(ParseSrtTime(block[2].start))
        end_sec == Get(ParseSrtTime(block[2].end))
        tag_type == ParseTagLine(block[3])
        meta == IF Len(block) >= 4 /\ ~BrokenJson(block[4]) THEN block[4].dict ELSE <<>>
        typed == IF tag_type = None THEN <<>> ELSE [f \in {"type"} |-> Get(tag_type)]
    IN  [start_sec |-> start_sec,
         end_sec |-> end_sec,
         start_srt |-> FormatSrtTime(start_sec),
         end_srt |-> FormatSrtTime(end_sec)] @@ typed @@ meta

\* read_srt_to_events: the events of the blocks not passed over, in file order
ReadSrtToEvents(blocks) ==
    LET kept == SelectSeq(blocks, LAMBDA b : ~Skipped(b))
    IN  [k \in 1 .. Len(kept) |-> EventOfBlock(kept[k])]

(* Specification of the converters on every bounded file: a JSONL file of   *)
(* events is converted to SRT, one time of the SRT may be edited, and the   *)
(* SRT is converted back; or an SRT file written by hand is converted.      *)

\* start times: zero, below a millisecond, between milliseconds, just under
\* a second, a second, over a minute, over an hour, a hundred hours
ConvertTimes ==
    {0, 1, Ms(1) + 1, Ms(1000) - 1, Ms(1000), Ms(61000) + 1, Ms(3600001), Ms(360000000)}

\* type and delta_max of the events
ConvertKinds ==
    {<<"bleed_candidate", 1>>, <<"bleed_candidate", 2>>, <<"cut", 1>>, <<"bleed", 1>>,
     <<"scene", 2>>}

\* an event line of a JSONL file
ConvertEvent(kind, start) ==
    [type |-> kind[1],
     metric |-> "red_ratio",
     thr |-> 1,
     k_s |-> 0,
     smooth_s |-> 0,
     delta_max |-> kind[2],
     start_sec |-> start,
     end_sec |-> start + Ms(1) + 1]

ConvertEvents == {ConvertEvent(kind, start) : kind \in ConvertKinds, start \in ConvertTimes}

\* the time texts of the blocks written by hand
HandTimes == {<<0, 0, 1, 0>>, <<0, 1, 0, 500>>}

\* the blocks written by hand: complete, without the JSON line, with a
\* broken JSON line, with two lines, without "-->", with a time that is none
HandBlocks ==
    UNION {{<<1, [arrow |-> TRUE, start |-> t, end |-> t], tag,
              [json |-> TRUE, dict |-> BuildJsonLine(ConvertEvent(<<"cut", 1>>, 0))]>>,
            <<1, [arrow |-> TRUE, start |-> t, end |-> t], tag>>,
            <<1, [arrow |-> TRUE, start |-> t, end |-> t], tag, [json |-> FALSE]>>,
            <<1, [arrow |-> TRUE, start |-> t, end |-> t]>>,
            <<1, [arrow |-> FALSE], tag>>,
            <<1, [arrow |-> TRUE, start |-> <<1, 0>>, end |-> t], tag>>} :
           t \in HandTimes, tag \in {"bleed", "scene"}}

\* the time texts a hand puts in place of a start time
EditedTimes == {<<0, 0, 12, 0>>}

InitConvert ==
    /\ \/ /\ pc = "jsonl_given"
          /\ jsonl \in {Some(f) : f \in UNION {[1 .. n -> ConvertEvents] : n \in 0 .. MaxEvents}}
          /\ srt = None
       \/ /\ pc = "srt_given"
          /\ jsonl = None
          /\ srt \in {Some(f) : f \in UNION {[1 .. n -> HandBlocks] : n \in 0 .. MaxBlocks}}
    /\ csv = None
    /\ NoSource
    /\ NoProxy
    /\ NoFrames
    /\ NoMetrics
    /\ NoSecondPass

\* jsonl_to_srt.convert without a type filter
JsonlToSrt ==
    /\ pc = "jsonl_given"
    /\ srt' = Some(EventsToSrt(SortedByStart(Get(jsonl))))
    /\ pc' = "srt_written"
    /\ UNCHANGED <<sourceVars, configVars, times, csv, jsonl, deltas, smooth_deltas, i,
                   in_event, start_idx, events>>

\* a hand replaces the start time of one block of the SRT written
EditSrtTime ==
    /\ pc = "srt_written"
    /\ \E k \in 1 .. Len(Get(srt)), t \in EditedTimes :
          srt' = Some([Get(srt) EXCEPT ![k][2].start = t])
    /\ pc' = "srt_edited"
    /\ UNCHANGED <<sourceVars, configVars, times, csv, jsonl, deltas, smooth_deltas, i,
                   in_event, start_idx, events>>

\* srt_to_jsonl.convert
SrtToJsonl ==
    /\ pc \in {"srt_written", "srt_edited", "srt_given"}
    /\ events' = ReadSrtToEvents(Get(srt))
    /\ pc' = CASE pc = "srt_given" -> "read"
               [] pc = "srt_written" -> "restored"
               [] pc = "srt_edited" -> "restored_edited"
    /\ UNCHANGED <<sourceVars, configVars, times, csv, jsonl, srt, deltas, smooth_deltas,
                   i, in_event, start_idx>>

NextConvert == JsonlToSrt \/ EditSrtTime \/ SrtToJsonl

SpecConvert == InitConvert /\ [][NextConvert]_vars

----------------------------------------------------------------------------
(* The converters, as the claims speak of them *)

\* srt_to_jsonl.convert has returned
Converted == pc \in {"read", "restored", "restored_edited"}

\* the record cannot be read: too few lines or no time range that parses
Unreadable(b) ==
    \/ Len(b) <= 2
    \/ ~b[2].arrow
    \/ ~MatchesSrtTime(b[2].start)
    \/ ~MatchesSrtTime(b[2].end)

\* the record has a JSON line that does not parse
JsonBroken(b) == Len(b) >= 4 /\ ~b[4].json

\* the positions in the file of the records for which Bad is false, in order
Remaining(Bad(_)) ==
    SelectSeq([j \in 1 .. Len(Get(srt)) |-> j], LAMBDA j : ~Bad(Get(srt)[j]))

\* the event has the times of the time line of the record b
TimesOf(ev, b) ==
    /\ ev["start_sec"] = Get(ParseSrtTime(b[2].start))
    /\ ev["end_sec"] = Get(ParseSrtTime(b[2].end))

TimeGap(a, b) == IF a >= b THEN a - b ELSE b - a

\* the keys of the metadata of an event
MetaKeys == {"metric", "thr", "k_s", "smooth_s", "delta_max"}

\* the events of the JSONL file given, by start time
GivenByStart == SortedByStart(Get(jsonl))

(* C21: after JSONL -> SRT -> JSONL the events are as many as given, in     *)
(* the order of their start times, each with the type and the metadata of   *)
(* the event given and with start_sec and end_sec less than a millisecond   *)
(* from the ones given; and after a time of the SRT was edited, the times   *)
(* of the resulting events are the ones of the time lines of the SRT.       *)
C21_RoundTripPreserves ==
    /\ pc = "restored" =>
           /\ Len(events) = Len(GivenByStart)
           /\ \A k \in 1 .. Len(events) :
                  /\ events[k]["type"] = GivenByStart[k]["type"]
                  /\ \A f \in MetaKeys : events[k][f] = GivenByStart[k][f]
                  /\ TimeGap(events[k]["start_sec"], GivenByStart[k]["start_sec"]) < Ms(1)
                  /\ TimeGap(events[k]["end_sec"], GivenByStart[k]["end_sec"]) < Ms(1)
                  /\ k > 1 => events[k - 1]["start_sec"] <= events[k]["start_sec"]
    /\ pc = "restored_edited" =>
           /\ Len(events) = Len(Get(srt))
           /\ \A k \in 1 .. Len(events) :
                  /\ TimesOf(events[k], Get(srt)[k])
                  /\ events[k]["start_srt"] = Get(srt)[k][2].start

----------------------------------------------------------------------------
(* make_proxy.convert_batch.  A video is <<stem, extension>>; its output    *)
(* path in outdir is known by the stem.  What ffmpeg does is not the        *)
(* program's: a run ends "ok", "nonzero", "timeout" or "missing" (no        *)
(* ffmpeg), and a run that started may leave an output file behind.         *)

MaxVideos == 3

\* the input videos: two of one stem, one of another
ProxyVideos == {<<"a", "mp4">>, <<"a", "mov">>, <<"b", "mp4">>}

\* make_output_path: outdir / f"{video_path.stem}_proxy.mp4"
MakeOutputPath(v) == v[1]

\* the if / elif / else of convert_batch after convert_one has returned:
\* the elif asks whether the output exists now
Classify(result, v, after) ==
    IF result # None THEN "converted"
    ELSE IF MakeOutputPath(v) \in after /\ ~force THEN "skipped"
    ELSE "failed"

\* the counters and outputs after one video was classified
Counted(result, class) ==
    /\ converted' = converted + (IF class = "converted" THEN 1 ELSE 0)
    /\ skipped' = skipped + (IF class = "skipped" THEN 1 ELSE 0)
    /\ failed' = failed + (IF class = "failed" THEN 1 ELSE 0)
    /\ outputs' = IF class = "converted" THEN Append(outputs, Get(result)) ELSE outputs

\* one iteration of the loop of convert_batch: convert_one, then the counters
ConvertBatchStep ==
    /\ pc = "batch"
    /\ batch_i < Len(videos)
    /\ LET v == videos[batch_i + 1]
           out == MakeOutputPath(v)
       IN  \/ \* the output exists and force is off: None without a run
              /\ out \in existing /\ ~force
              /\ ffmpeg' = "not_run"
              /\ existing' = existing
              /\ Counted(None, Classify(None, v, existing'))
           \/ \* returncode 0 and the output is there: the path is returned
              /\ ~(out \in existing /\ ~force)
              /\ ffmpeg' = "ok"
              /\ existing' = existing \cup {out}
              /\ Counted(Some(out), Classify(Some(out), v, existing'))
           \/ \* returncode not 0, TimeoutExpired or FileNotFoundError: None;
              \* a run that started may have left a file
              /\ ~(out \in existing /\ ~force)
              /\ \E end \in {"nonzero", "timeout", "missing"}, left \in BOOLEAN :
                    /\ end = "missing" => ~left
                    /\ ffmpeg' = end
                    /\ existing' = IF left THEN existing \cup {out} ELSE existing
              /\ Counted(None, Classify(None, v, existing'))
    /\ batch_i' = batch_i + 1
    /\ UNCHANGED <<pc, videos, force, video, backend, pos, next_t, ratios, reader_name,
                   roi_mask, roi_initialized, metricVars, configVars, times, loopVars>>

\* the loop is over: the dict is returned
ConvertBatchReturn ==
    /\ pc = "batch"
    /\ batch_i = Len(videos)
    /\ pc' = "batch_done"
    /\ UNCHANGED <<sourceVars, configVars, times, loopVars>>

InitProxy ==
    /\ pc = "batch"
    /\ videos \in UNION {[1 .. n -> ProxyVideos] : n \in 0 .. MaxVideos}
    /\ force \in BOOLEAN
    /\ existing \in SUBSET {MakeOutputPath(v) : v \in ProxyVideos}
    /\ batch_i = 0
    /\ ffmpeg = "not_run"
    /\ converted = 0
    /\ skipped = 0
    /\ failed = 0
    /\ outputs = <<>>
    /\ NoSource
    /\ NoFrames
    /\ NoMetrics
    /\ NoSecondPass
    /\ NoFiles

NextProxy == ConvertBatchStep \/ ConvertBatchReturn

SpecProxy == InitProxy /\ [][NextProxy]_vars

\* convert_batch handles a video in this step
BatchStep == pc = "batch" /\ batch_i' = batch_i + 1

\* the video handled in this step
BatchVideo == videos[batch_i + 1]

(* C30: convert_batch counts every video once, as converted, skipped or     *)
(* failed; a video whose ffmpeg run failed (non-zero exit, timeout, no      *)
(* ffmpeg) is counted as failed; a video is counted as skipped only when    *)
(* its output existed before the call and force is off; outputs has one     *)
(* path per converted video, and at the end the counters add up to the      *)
(* number of videos.                                                        *)
C30_BatchCounts ==
    /\ [][BatchStep =>
             /\ converted' + skipped' + failed' = converted + skipped + failed + 1
             /\ converted' >= converted /\ skipped' >= skipped /\ failed' >= failed
             /\ ffmpeg' \in {"nonzero", "timeout", "missing"} => failed' = failed + 1
             /\ skipped' = skipped + 1 =>
                    (MakeOutputPath(BatchVideo) \in existing /\ ~force)]_vars
    /\ [](/\ Len(outputs) = converted
          /\ pc = "batch_done" => converted + skipped + failed = Len(videos))

====
